---- MODULE Spec2Model ----
(***************************************************************************)
(* MoneyMentor: the goal-based planning engine (src/agents/goal_agent.py). *)
(*                                                                         *)
(* Units.  Rupee inputs (income, amount, current_savings) are integers.    *)
(* Values the code rounds to two decimals (monthly_sip_required,           *)
(* future_value_projection, totals and suggestions derived from them) are  *)
(* held in hundredths of a rupee ("paise"), so a rupee amount x compares   *)
(* with a paise amount as 100 * x.  time_years is held in quarter-years    *)
(* (QuartersPerYear units per year) so that horizons 0.25, 0.5, ... are    *)
(* values of the model; months = years * 12 is then 3 * quarters.          *)
(* (1 + r) ^ months is computed in binary fixed point with Scale = 2^20;   *)
(* the sips so obtained agree with the code's floating-point results to a  *)
(* relative 2e-4 or one paise, the projections follow from the sips, and   *)
(* every other field of a result agrees exactly, on all the inputs of the  *)
(* three specifications.                                                   *)
(***************************************************************************)
EXTENDS Integers, Sequences, FiniteSets, TLC

VARIABLES
    goal_templates,              \* GoalAgent.goal_templates (ordered catalog)
    investment_recommendations,  \* GoalAgent.investment_recommendations
    pc,                          \* "idle" | "called" | "returned"
    op,                          \* the method being called
    args,                        \* its arguments
    result,                      \* its outcome: a return value or a raised error
    stack,                       \* arguments of the suspended callers
    clock,                       \* the system clock over the call (see NowAt)
    earlier,                     \* history: an outcome of analyze_goals a caller kept
    threads,                     \* the analyze_goals call of each worker thread
    user,                        \* current_user: the stored income and risk appetite
    plan,                        \* the /api/calculate-plan request being served
    handled,                     \* history: runs of calculate_plan in the last minute
    investment_options,          \* InvestmentAgent.investment_options, shared
    portfolios                   \* the suggest_portfolio call of each worker thread

vars ==
    <<goal_templates, investment_recommendations, pc, op, args, result, stack,
      clock, earlier, threads, user, plan, handled, investment_options,
      portfolios>>

\* the stored user, the planning request and the count of those handled
planVars == <<user, plan, handled>>

\* the investment agent's table and the calls made on it
investVars == <<investment_options, portfolios>>

\* what the calls made one at a time leave alone
otherVars == <<threads, planVars, investVars>>

\* the agent and the call made on it outside the worker threads
agentVars ==
    <<goal_templates, investment_recommendations, pc, op, args, result, stack,
      clock, earlier>>

\* what the worker threads leave alone
notThreads == <<agentVars, planVars, investVars>>

\* what a planning request leaves alone
notPlan == <<agentVars, threads, investVars>>

\* what a suggest_portfolio call leaves alone
notInvest == <<agentVars, threads, planVars>>

----------------------------------------------------------------------------
(* Bounds of the model *)

\* longest horizon a goal request may carry, in quarter-years
MaxQuarters == 100

\* longest goal list handed to analyze_goals
MaxGoals == 2

\* largest sip / income percentage tried on calculate_feasibility_score
MaxPct == 30

\* the clock passes into the next period before the MaxTick-th read of a
\* call at the latest
MaxTick == 3

\* calls of analyze_goals that may wait on one another
MaxDepth == 3

\* the requests a client sends within one minute
MaxRequests == 31

----------------------------------------------------------------------------
(* Numbers *)

QuartersPerYear == 4

\* fixed-point scale of growth factors: 2^20
Scale == 2 ^ 20

Max(a, b) == IF a >= b THEN a ELSE b

Min(a, b) == IF a <= b THEN a ELSE b

Abs(a) == IF a < 0 THEN -a ELSE a

\* the largest integer of the arithmetic used here
MaxInt == (2 ^ 30 - 1) * 2 + 1

\* the largest base in which a product modulo c is formed within MaxInt:
\* (2 * Radix(c) - 1) * c <= MaxInt, and at least 2
Radix(c) == Max(2, ((MaxInt \div c) - 1) \div 2 + 1)

\* one digit d of the multiplier, h the pair for the digits above it
MulDivStep(h, d, base, a, c) ==
    <<base * h[1] + d * (a \div c) + ((base * h[2] + d * (a % c)) \div c),
      (base * h[2] + d * (a % c)) % c>>

\* <<floor(a*b/c), (a*b) mod c>> for a, b >= 0, 0 < c, without forming a*b:
\* long multiplication on the digits of b in base Radix(c), reducing
\* modulo c as it goes.
RECURSIVE MulDivRem(_, _, _)
MulDivRem(a, b, c) ==
    IF b = 0 THEN <<0, 0>>
    ELSE MulDivStep(MulDivRem(a, b \div Radix(c), c), b % Radix(c), Radix(c),
                    a, c)

\* a*b/c rounded to the nearest integer (Python's round of the quotient)
MulDivRound(a, b, c) ==
    LET qr == MulDivRem(a, b, c)
    IN  IF 2 * qr[2] >= c THEN qr[1] + 1 ELSE qr[1]

\* (1 + annual_return/12/100) ** months, scaled by Scale, by repeated
\* squaring; 1 + monthly_return = (1200 + annual_return) / 1200
RECURSIVE Power(_, _)
Power(annual_return, months) ==
    IF months <= 0 THEN Scale
    ELSE LET h == Power(annual_return, months \div 2)
             hh == IF h > 0 THEN MulDivRound(h, h, Scale) ELSE 0
         IN  IF months % 2 = 0 THEN hh
             ELSE IF hh > 0
                  THEN MulDivRound(hh, 1200 + annual_return, 1200)
                  ELSE 0

\* the annual returns and month counts the engine can ask for: base returns
\* are at most 12 + 1, horizons at most MaxQuarters + 2 years (the timeline
\* extension of optimize_goals)
PowerTable ==
    [annual_return \in 1..13 |->
        [months \in 0..(3 * (MaxQuarters + 2 * QuartersPerYear)) |->
            Power(annual_return, months)]]

\* Power, looked up where tabulated
Growth(annual_return, months) ==
    IF annual_return \in DOMAIN PowerTable
          /\ months \in DOMAIN PowerTable[annual_return]
    THEN PowerTable[annual_return][months]
    ELSE Power(annual_return, months)

----------------------------------------------------------------------------
(* Strings: a name is a sequence of one-character strings *)

UpperAlpha ==
    <<"A", "B", "C", "D", "E", "F", "G", "H", "I", "J", "K", "L", "M",
      "N", "O", "P", "Q", "R", "S", "T", "U", "V", "W", "X", "Y", "Z">>

LowerAlpha ==
    <<"a", "b", "c", "d", "e", "f", "g", "h", "i", "j", "k", "l", "m",
      "n", "o", "p", "q", "r", "s", "t", "u", "v", "w", "x", "y", "z">>

LowerChar(c) ==
    IF \E i \in 1..Len(UpperAlpha) : UpperAlpha[i] = c
    THEN LowerAlpha[CHOOSE i \in 1..Len(UpperAlpha) : UpperAlpha[i] = c]
    ELSE c

\* str.lower()
Lower(s) == [i \in 1..Len(s) |-> LowerChar(s[i])]

\* Python's `needle in hay` on strings
Contains(hay, needle) ==
    \E i \in 0..(Len(hay) - Len(needle)) :
        SubSeq(hay, i + 1, i + Len(needle)) = needle

\* dict.get(key, default)
Get(d, key, default) == IF key \in DOMAIN d THEN d[key] ELSE default

----------------------------------------------------------------------------
(* GoalAgent.__init__: the two tables *)

\* goal_templates in insertion order; typical_amount is the income multiple of
\* the template's lambda (lambda income: income * 6, ...)
GoalTemplates ==
    <<
      [key |-> <<"e", "m", "e", "r", "g", "e", "n", "c", "y", "_", "f", "u", "n", "d">>,
       typical_amount |-> 6, time_horizon |-> 1, priority |-> "critical",
       investment_type |-> "liquid", expected_return |-> 5],
      [key |-> <<"h", "o", "u", "s", "e", "_", "p", "u", "r", "c", "h", "a", "s", "e">>,
       typical_amount |-> 60, time_horizon |-> 7, priority |-> "high",
       investment_type |-> "hybrid", expected_return |-> 10],
      [key |-> <<"c", "a", "r", "_", "p", "u", "r", "c", "h", "a", "s", "e">>,
       typical_amount |-> 8, time_horizon |-> 3, priority |-> "medium",
       investment_type |-> "conservative", expected_return |-> 8],
      [key |-> <<"m", "a", "r", "r", "i", "a", "g", "e">>,
       typical_amount |-> 20, time_horizon |-> 4, priority |-> "high",
       investment_type |-> "moderate", expected_return |-> 9],
      [key |-> <<"e", "d", "u", "c", "a", "t", "i", "o", "n">>,
       typical_amount |-> 36, time_horizon |-> 5, priority |-> "high",
       investment_type |-> "moderate", expected_return |-> 11],
      [key |-> <<"r", "e", "t", "i", "r", "e", "m", "e", "n", "t">>,
       typical_amount |-> 300, time_horizon |-> 25, priority |-> "critical",
       investment_type |-> "aggressive", expected_return |-> 12],
      [key |-> <<"v", "a", "c", "a", "t", "i", "o", "n">>,
       typical_amount |-> 2, time_horizon |-> 1, priority |-> "low",
       investment_type |-> "liquid", expected_return |-> 6],
      [key |-> <<"c", "h", "i", "l", "d", "_", "e", "d", "u", "c", "a", "t", "i", "o", "n">>,
       typical_amount |-> 60, time_horizon |-> 15, priority |-> "critical",
       investment_type |-> "aggressive", expected_return |-> 12]
    >>

InvestmentRecommendations ==
    [liquid |->
        [allocation |-> [liquid |-> 80, debt |-> 20, equity |-> 0],
         instruments |-> <<"Liquid Funds", "Ultra Short Duration Funds", "Savings Account">>,
         risk_level |-> "Very Low"],
     conservative |->
        [allocation |-> [liquid |-> 20, debt |-> 60, equity |-> 20],
         instruments |-> <<"Short Duration Funds", "Conservative Hybrid Funds", "FD">>,
         risk_level |-> "Low"],
     moderate |->
        [allocation |-> [liquid |-> 10, debt |-> 40, equity |-> 50],
         instruments |-> <<"Balanced Advantage Funds", "Hybrid Funds", "Large Cap Funds">>,
         risk_level |-> "Moderate"],
     hybrid |->
        [allocation |-> [liquid |-> 5, debt |-> 25, equity |-> 70],
         instruments |-> <<"Multi Cap Funds", "Large & Mid Cap Funds", "Debt Funds">>,
         risk_level |-> "Moderate to High"],
     aggressive |->
        [allocation |-> [liquid |-> 5, debt |-> 15, equity |-> 80],
         instruments |-> <<"Mid Cap Funds", "Small Cap Funds", "Multi Cap Funds">>,
         risk_level |-> "High"]]

\* goal.get('name', 'Custom Goal')
DefaultGoalName == <<"C", "u", "s", "t", "o", "m", " ", "G", "o", "a", "l">>

\* goal.get('time_years', 5), in years
DefaultTimeYears == 5

----------------------------------------------------------------------------
(* Financial math *)

\* the ZeroDivisionError of calculate_sip_amount: ((1 + r) ** months) - 1 = 0
SipDivisionByZero(annual_return, years) ==
    /\ annual_return > 0
    /\ years > 0
    /\ Growth(annual_return, 3 * years) = Scale

\* the two branches of calculate_sip_amount for target_amount >= 0
SipOfMagnitude(target_amount, annual_return, years) ==
    IF annual_return <= 0 \/ years <= 0
    THEN IF years > 0
         THEN MulDivRound(target_amount, 100, 3 * years)
         ELSE 100 * target_amount
    ELSE LET growth == Growth(annual_return, 3 * years)
         IN  IF growth = Scale THEN 0   \* raises: see SipDivisionByZero
             ELSE MulDivRound(target_amount * annual_return, Scale,
                              12 * (growth - Scale))

\* calculate_sip_amount(target_amount, annual_return, years): target_amount in
\* rupees, years in quarter-years, the result in paise.
\*   P = FV * r / ((1+r)^n - 1), r = annual_return/12/100, n = years*12
\*     = FV * annual_return / (12 * 100 * ((1+r)^n - 1))
\* No branch looks at the sign of target_amount: the quotient of a negative
\* target is the negated quotient of its magnitude.
calculate_sip_amount(target_amount, annual_return, years) ==
    IF target_amount < 0
    THEN -SipOfMagnitude(-target_amount, annual_return, years)
    ELSE SipOfMagnitude(target_amount, annual_return, years)

\* calculate_future_value(monthly_sip, annual_return, years): monthly_sip and
\* the result in paise, years in quarter-years.
\*   FV = P * (((1+r)^n - 1) / r) * (1+r)
\*      = P * ((1+r)^n - 1) * (1200 + annual_return) / annual_return
\* The factor after P is held scaled by Scale/2.
calculate_future_value(monthly_sip, annual_return, years) ==
    IF annual_return <= 0 \/ years <= 0
    THEN monthly_sip * 3 * years
    ELSE LET growth == Growth(annual_return, 3 * years)
             factor == IF growth > Scale
                       THEN MulDivRound(growth - Scale, 1200 + annual_return,
                                        2 * annual_return)
                       ELSE 0
         IN  IF factor > 0 /\ monthly_sip > 0
             THEN MulDivRound(monthly_sip, factor, Scale \div 2)
             ELSE 0

\* (amount / monthly_income) * 100 <= k, amount in paise, monthly_income > 0
PercentAtMost(amount, monthly_income, k) == amount <= k * monthly_income

----------------------------------------------------------------------------
(* Per-goal analysis *)

\* the score when the third band is skipped (a missing elif)
FeasibilityScoreNoBand(monthly_sip, monthly_income) ==
    IF PercentAtMost(monthly_sip, monthly_income, 5) THEN 100
    ELSE IF PercentAtMost(monthly_sip, monthly_income, 10) THEN 80
    ELSE IF PercentAtMost(monthly_sip, monthly_income, 20) THEN 40
    ELSE IF PercentAtMost(monthly_sip, monthly_income, 25) THEN 20
    ELSE 0

\* the score with the 20% and 25% bands swapped
FeasibilityScoreSwapped(monthly_sip, monthly_income) ==
    IF PercentAtMost(monthly_sip, monthly_income, 5) THEN 100
    ELSE IF PercentAtMost(monthly_sip, monthly_income, 10) THEN 80
    ELSE IF PercentAtMost(monthly_sip, monthly_income, 15) THEN 60
    ELSE IF PercentAtMost(monthly_sip, monthly_income, 20) THEN 20
    ELSE IF PercentAtMost(monthly_sip, monthly_income, 25) THEN 40
    ELSE 0

\* calculate_feasibility_score(monthly_sip, monthly_income), monthly_income > 0
calculate_feasibility_score(monthly_sip, monthly_income) ==
    IF PercentAtMost(monthly_sip, monthly_income, 5) THEN 100
    ELSE IF PercentAtMost(monthly_sip, monthly_income, 10) THEN 80
    ELSE IF PercentAtMost(monthly_sip, monthly_income, 15) THEN 60
    ELSE IF PercentAtMost(monthly_sip, monthly_income, 20) THEN 40
    ELSE IF PercentAtMost(monthly_sip, monthly_income, 25) THEN 20
    ELSE 0

\* determine_investment_strategy without its template branch: the horizon
\* decides for every goal
StrategyByHorizonOnly(time_horizon, template) ==
    IF time_horizon <= 2 * QuartersPerYear THEN "liquid"
    ELSE IF time_horizon <= 5 * QuartersPerYear THEN "conservative"
    ELSE IF time_horizon <= 10 * QuartersPerYear THEN "moderate"
    ELSE "aggressive"

\* determine_investment_strategy(time_horizon, template); template = 0 is None
determine_investment_strategy(time_horizon, template) ==
    IF template # 0 THEN goal_templates[template].investment_type
    ELSE IF time_horizon <= 2 * QuartersPerYear THEN "liquid"
    ELSE IF time_horizon <= 5 * QuartersPerYear THEN "conservative"
    ELSE IF time_horizon <= 10 * QuartersPerYear THEN "moderate"
    ELSE "aggressive"

\* base_returns.get(investment_type, 8)
BaseReturn(investment_type) ==
    CASE investment_type = "liquid" -> 5
      [] investment_type = "conservative" -> 7
      [] investment_type = "moderate" -> 9
      [] investment_type = "hybrid" -> 10
      [] investment_type = "aggressive" -> 12
      [] OTHER -> 8

\* get_expected_return without the two horizon adjustments
ExpectedReturnBaseOnly(investment_type, time_horizon) ==
    BaseReturn(investment_type)

\* get_expected_return(investment_type, time_horizon)
get_expected_return(investment_type, time_horizon) ==
    IF time_horizon > 10 * QuartersPerYear THEN BaseReturn(investment_type) + 1
    ELSE IF time_horizon < 2 * QuartersPerYear THEN BaseReturn(investment_type) - 1
    ELSE BaseReturn(investment_type)

\* the template loop matching in one direction only (template_name in goal_name)
RECURSIVE FindTemplateOneWay(_, _)
FindTemplateOneWay(goal_name, i) ==
    IF i > Len(goal_templates) THEN 0
    ELSE IF Contains(goal_name, goal_templates[i].key) THEN i
    ELSE FindTemplateOneWay(goal_name, i + 1)

\* the loop of analyze_single_goal over self.goal_templates.items(), from the
\* i-th entry on: the index of the first template that matches, 0 for None
RECURSIVE FindTemplate(_, _)
FindTemplate(goal_name, i) ==
    IF i > Len(goal_templates) THEN 0
    ELSE IF \/ Contains(goal_name, goal_templates[i].key)
            \/ Contains(goal_templates[i].key, goal_name)
         THEN i
         ELSE FindTemplate(goal_name, i + 1)

\* outcomes of a call
Returned(v) == [kind |-> "return", value |-> v]

Raised(e) == [kind |-> "raise", error |-> e]

\* goal.get('current_savings') or current_savings
CurrentCorpusOrDefault(goal, current_savings) ==
    IF "current_savings" \in DOMAIN goal /\ goal["current_savings"] # 0
    THEN goal["current_savings"]
    ELSE current_savings

\* goal.get('current_savings', current_savings)
CurrentCorpus(goal, current_savings) ==
    Get(goal, "current_savings", current_savings)

\* target_amount after "Use template defaults if goal amount not specified"
TargetAmount(goal, template, monthly_income) ==
    IF Get(goal, "amount", 0) = 0 /\ template # 0
    THEN goal_templates[template].typical_amount * monthly_income
    ELSE Get(goal, "amount", 0)

\* remaining_amount without the floor at 0
RemainingNoFloor(target_amount, current_corpus) ==
    target_amount - current_corpus

\* remaining_amount = max(0, target_amount - current_corpus)
RemainingAmount(target_amount, current_corpus) ==
    Max(0, target_amount - current_corpus)

\* monthly_sip of analyze_single_goal, in paise
MonthlySip(remaining_amount, expected_return, time_horizon) ==
    IF time_horizon <= 0
    THEN 100 * remaining_amount
    ELSE calculate_sip_amount(remaining_amount, expected_return, time_horizon)

\* future_value_with_growth with the branch taken for time_horizon < 0 only
FutureValueStrictBoundary(remaining_amount, monthly_sip, expected_return, time_horizon, current_corpus) ==
    IF time_horizon < 0
    THEN 100 * remaining_amount
    ELSE calculate_future_value(monthly_sip, expected_return, time_horizon)
           + 100 * current_corpus

\* future_value_with_growth of analyze_single_goal, in paise
FutureValueWithGrowth(remaining_amount, monthly_sip, expected_return, time_horizon, current_corpus) ==
    IF time_horizon <= 0
    THEN 100 * remaining_amount
    ELSE calculate_future_value(monthly_sip, expected_return, time_horizon)
           + 100 * current_corpus

\* a default priority that is no key of goal_priorities
GoalPriorityUnlisted(template) ==
    IF template # 0 THEN goal_templates[template].priority ELSE "normal"

\* template['priority'] if template else 'medium'
GoalPriority(template) ==
    IF template # 0 THEN goal_templates[template].priority ELSE "medium"

\* datetime.now() at the k-th read of the call in progress, counted in
\* periods from the first read.  The clock runs on its own: clock = 0 when
\* it stays within one period for the whole call, clock = k when it passes
\* into the next period just before the k-th read.
NowAt(k) == IF clock > 0 /\ k >= clock THEN 1 ELSE 0

\* generate_milestones with range(1, int(years) + 1): no cap at 5
GenerateMilestonesUncapped(target_amount, years, reads) ==
    IF years <= QuartersPerYear
    THEN [i \in 1..Max(1, years) |->
            [milestone |-> <<"Quarter", i>>,
             target_amount |-> MulDivRound(target_amount, 100 * i, Max(1, years)),
             target_date |-> [now |-> NowAt(reads + i), days |-> 90 * i],
             percentage |-> <<i * 100, Max(1, years)>>]]
    ELSE [i \in 1..(years \div QuartersPerYear) |->
            [milestone |-> <<"Year", i>>,
             target_amount |->
                 MulDivRound(target_amount, 100 * i * QuartersPerYear, years),
             target_date |-> [now |-> NowAt(reads + i), days |-> 365 * i],
             percentage |-> <<i * 100 * QuartersPerYear, years>>]]

\* generate_milestones(target_amount, years), reads being the number of
\* datetime.now() reads made earlier in the call.  target_amount of a
\* milestone is in paise, percentage the fraction <<numerator, denominator>>,
\* target_date the date before strftime: the time read and the days added.
generate_milestones(target_amount, years, reads) ==
    IF years <= QuartersPerYear
    THEN [i \in 1..Max(1, years) |->
            [milestone |-> <<"Quarter", i>>,
             target_amount |-> MulDivRound(target_amount, 100 * i, Max(1, years)),
             target_date |-> [now |-> NowAt(reads + i), days |-> 90 * i],
             percentage |-> <<i * 100, Max(1, years)>>]]
    ELSE [i \in 1..Min(years \div QuartersPerYear, 5) |->
            [milestone |-> <<"Year", i>>,
             target_amount |->
                 MulDivRound(target_amount, 100 * i * QuartersPerYear, years),
             target_date |-> [now |-> NowAt(reads + i), days |-> 365 * i],
             percentage |-> <<i * 100 * QuartersPerYear, years>>]]

\* analyze_single_goal(goal, monthly_income, current_savings), reads being
\* the number of datetime.now() reads made earlier in the call.  The outcome
\* is the returned dict, or the error the first failing expression raises.
\* Not carried: total_investment_needed, corpus_growth_without_sip,
\* goal_category, inflation_adjusted_target (no other field reads them).
analyze_single_goal(goal, monthly_income, current_savings, reads) ==
    LET goal_name       == Lower(Get(goal, "name", DefaultGoalName))
        time_horizon    == Get(goal, "time_years", DefaultTimeYears * QuartersPerYear)
        current_corpus  == CurrentCorpus(goal, current_savings)
        template        == FindTemplate(goal_name, 1)
        target_amount   == TargetAmount(goal, template, monthly_income)
        investment_type == determine_investment_strategy(time_horizon, template)
        expected_return == get_expected_return(investment_type, time_horizon)
        remaining_amount == RemainingAmount(target_amount, current_corpus)
        monthly_sip     == MonthlySip(remaining_amount, expected_return, time_horizon)
        future_value_with_growth ==
            FutureValueWithGrowth(remaining_amount, monthly_sip, expected_return,
                                  time_horizon, current_corpus)
    IN  IF time_horizon > 0 /\ SipDivisionByZero(expected_return, time_horizon)
        THEN Raised("ZeroDivisionError")
        ELSE IF investment_type \notin DOMAIN investment_recommendations
        THEN Raised("KeyError")
        ELSE IF monthly_income = 0
        THEN Raised("ZeroDivisionError")
        ELSE Returned(
            [name |-> Get(goal, "name", DefaultGoalName),
             target_amount |-> target_amount,
             time_horizon_years |-> time_horizon,
             current_corpus |-> current_corpus,
             remaining_amount |-> remaining_amount,
             monthly_sip_required |-> monthly_sip,
             expected_return |-> expected_return,
             future_value_projection |-> future_value_with_growth,
             investment_strategy |-> investment_type,
             recommended_instruments |->
                 investment_recommendations[investment_type].instruments,
             asset_allocation |->
                 investment_recommendations[investment_type].allocation,
             risk_level |-> investment_recommendations[investment_type].risk_level,
             priority |-> GoalPriority(template),
             feasibility_score |->
                 calculate_feasibility_score(monthly_sip, monthly_income),
             milestone_tracking |->
                 generate_milestones(target_amount, time_horizon, reads)])

----------------------------------------------------------------------------
(* Aggregation *)

\* assess_feasibility with each band closed below instead of above
AssessFeasibilityStrict(total_sip_needed, monthly_income) ==
    [status |->
        IF total_sip_needed < 15 * monthly_income
        THEN "Highly Feasible"
        ELSE IF total_sip_needed < 25 * monthly_income
        THEN "Feasible with Discipline"
        ELSE IF total_sip_needed < 35 * monthly_income
        THEN "Challenging but Possible"
        ELSE "Needs Restructuring",
     recommended_max_sip |-> 25 * monthly_income,
     excess_amount |-> Max(0, total_sip_needed - 25 * monthly_income)]

\* assess_feasibility(total_sip_needed, monthly_income): total in paise
assess_feasibility(total_sip_needed, monthly_income) ==
    [status |->
        IF PercentAtMost(total_sip_needed, monthly_income, 15)
        THEN "Highly Feasible"
        ELSE IF PercentAtMost(total_sip_needed, monthly_income, 25)
        THEN "Feasible with Discipline"
        ELSE IF PercentAtMost(total_sip_needed, monthly_income, 35)
        THEN "Challenging but Possible"
        ELSE "Needs Restructuring",
     recommended_max_sip |-> 25 * monthly_income,
     excess_amount |-> Max(0, total_sip_needed - 25 * monthly_income)]

\* sum(g['monthly_sip_required'] for g in goals)
RECURSIVE SumSip(_)
SumSip(goals) ==
    IF goals = <<>> THEN 0
    ELSE Head(goals).monthly_sip_required + SumSip(Tail(goals))

\* [g for g in goals if g['priority'] in ['critical', 'high']]
HighPriorityGoals(goals) ==
    SelectSeq(goals, LAMBDA g : g.priority \in {"critical", "high"})

\* the timeline_extension suggestions, one per goal with feasibility_score < 60
RECURSIVE TimelineExtensions(_)
TimelineExtensions(goals) ==
    IF goals = <<>> THEN <<>>
    ELSE LET goal == Head(goals)
         IN  (IF goal.feasibility_score < 60
              THEN <<[type |-> "timeline_extension",
                      goal |-> goal.name,
                      current_timeline |-> goal.time_horizon_years,
                      suggested_timeline |->
                          goal.time_horizon_years + 2 * QuartersPerYear,
                      new_sip |->
                          calculate_sip_amount(
                              goal.remaining_amount, goal.expected_return,
                              goal.time_horizon_years + 2 * QuartersPerYear)]>>
              ELSE <<>>)
             \o TimelineExtensions(Tail(goals))

\* optimize_goals with the income_enhancement rule at 35 percent of the
\* income, the prioritization rule left at 25
OptimizeGoalsLateEnhancement(goals, monthly_income) ==
    (IF SumSip(HighPriorityGoals(goals)) > 25 * monthly_income
     THEN <<[type |-> "prioritization"]>>
     ELSE <<>>)
    \o TimelineExtensions(goals)
    \o (IF SumSip(goals) > 35 * monthly_income
        THEN <<[type |-> "income_enhancement",
                target_increase |-> SumSip(goals) - 25 * monthly_income]>>
        ELSE <<>>)

\* optimize_goals with the three kinds made alternatives (an elif chain):
\* the first kind that applies is the only one suggested
OptimizeGoalsExclusive(goals, monthly_income) ==
    IF SumSip(HighPriorityGoals(goals)) > 25 * monthly_income
    THEN <<[type |-> "prioritization"]>>
    ELSE IF TimelineExtensions(goals) # <<>>
    THEN TimelineExtensions(goals)
    ELSE IF SumSip(goals) > 25 * monthly_income
    THEN <<[type |-> "income_enhancement",
            target_increase |-> SumSip(goals) - 25 * monthly_income]>>
    ELSE <<>>

\* optimize_goals(goals, monthly_income); max_recommended_sip = income * 0.25
optimize_goals(goals, monthly_income) ==
    (IF SumSip(HighPriorityGoals(goals)) > 25 * monthly_income
     THEN <<[type |-> "prioritization"]>>
     ELSE <<>>)
    \o TimelineExtensions(goals)
    \o (IF SumSip(goals) > 25 * monthly_income
        THEN <<[type |-> "income_enhancement",
                target_increase |-> SumSip(goals) - 25 * monthly_income]>>
        ELSE <<>>)

\* the state of the loop of analyze_goals before its first iteration
LoopStart ==
    [analyzed_goals |-> <<>>,
     total_monthly_sip_needed |-> 0,
     goal_priorities |->
        [critical |-> <<>>, high |-> <<>>, medium |-> <<>>, low |-> <<>>]]

\* one iteration's updates of analyzed_goals, total_monthly_sip_needed and
\* goal_priorities by the analyzed goal
LoopUpdate(acc, goal_analysis) ==
    [analyzed_goals |-> Append(acc.analyzed_goals, goal_analysis),
     total_monthly_sip_needed |->
         acc.total_monthly_sip_needed + goal_analysis.monthly_sip_required,
     goal_priorities |->
         [acc.goal_priorities
             EXCEPT ![goal_analysis.priority] = Append(@, goal_analysis)]]

\* the datetime.now() reads made while the goals were analyzed: one for each
\* milestone
RECURSIVE MilestoneCount(_)
MilestoneCount(goals) ==
    IF goals = <<>> THEN 0
    ELSE Len(Head(goals).milestone_tracking) + MilestoneCount(Tail(goals))

\* for goal in user_goals: ... from the i-th goal on, goal_analysis being
\* the outcome of analyze_single_goal on the i-th.  An error raised in an
\* iteration ends the loop and the call.
RECURSIVE AnalyzeLoop(_, _, _, _, _)
LoopStep(user_goals, i, monthly_income, current_savings, acc, goal_analysis) ==
    IF goal_analysis.kind = "raise" THEN goal_analysis
    ELSE IF goal_analysis.value.priority \notin DOMAIN acc.goal_priorities
    THEN Raised("KeyError")
    ELSE AnalyzeLoop(user_goals, i + 1, monthly_income, current_savings,
                     LoopUpdate(acc, goal_analysis.value))

AnalyzeLoop(user_goals, i, monthly_income, current_savings, acc) ==
    IF i > Len(user_goals) THEN Returned(acc)
    ELSE LoopStep(user_goals, i, monthly_income, current_savings, acc,
                  analyze_single_goal(user_goals[i], monthly_income,
                                      current_savings,
                                      MilestoneCount(acc.analyzed_goals)))

\* default_goals with the income tests of generate_default_goals made strict
DefaultGoalsStrictThresholds(monthly_income) ==
    <<[name |-> <<"E", "m", "e", "r", "g", "e", "n", "c", "y", " ", "F", "u", "n", "d">>,
       amount |-> monthly_income * 6,
       time_years |-> 2 * QuartersPerYear,
       current_savings |-> 0]>>
    \o (IF monthly_income > 50000
        THEN <<[name |-> <<"H", "o", "u", "s", "e", " ", "P", "u", "r", "c", "h", "a", "s", "e">>,
                amount |-> monthly_income * 60,
                time_years |-> 10 * QuartersPerYear,
                current_savings |-> 0]>>
        ELSE <<>>)
    \o (IF monthly_income > 30000
        THEN <<[name |-> <<"C", "a", "r", " ", "P", "u", "r", "c", "h", "a", "s", "e">>,
                amount |-> monthly_income * 8,
                time_years |-> 5 * QuartersPerYear,
                current_savings |-> 0]>>
        ELSE <<>>)
    \o <<[name |-> <<"R", "e", "t", "i", "r", "e", "m", "e", "n", "t", " ", "C", "o", "r", "p", "u", "s">>,
          amount |-> monthly_income * 300,
          time_years |-> 25 * QuartersPerYear,
          current_savings |-> 0]>>

\* default_goals left empty
DefaultGoalsNone(monthly_income) == <<>>

\* the default_goals list of generate_default_goals(monthly_income)
DefaultGoals(monthly_income) ==
    <<[name |-> <<"E", "m", "e", "r", "g", "e", "n", "c", "y", " ", "F", "u", "n", "d">>,
       amount |-> monthly_income * 6,
       time_years |-> 2 * QuartersPerYear,
       current_savings |-> 0]>>
    \o (IF monthly_income >= 50000
        THEN <<[name |-> <<"H", "o", "u", "s", "e", " ", "P", "u", "r", "c", "h", "a", "s", "e">>,
                amount |-> monthly_income * 60,
                time_years |-> 10 * QuartersPerYear,
                current_savings |-> 0]>>
        ELSE <<>>)
    \o (IF monthly_income >= 30000
        THEN <<[name |-> <<"C", "a", "r", " ", "P", "u", "r", "c", "h", "a", "s", "e">>,
                amount |-> monthly_income * 8,
                time_years |-> 5 * QuartersPerYear,
                current_savings |-> 0]>>
        ELSE <<>>)
    \o <<[name |-> <<"R", "e", "t", "i", "r", "e", "m", "e", "n", "t", " ", "C", "o", "r", "p", "u", "s">>,
          amount |-> monthly_income * 300,
          time_years |-> 25 * QuartersPerYear,
          current_savings |-> 0]>>

\* the result analyze_goals builds once its loop has ended.
\* Not carried: recommendations (advice text) and
\* income_allocation_percentage (total / income * 100, unrounded).
AnalysisResult(loop, monthly_income) ==
    IF loop.kind = "raise" THEN loop
    ELSE IF monthly_income = 0 THEN Raised("ZeroDivisionError")
    ELSE Returned(
        [goals |-> loop.value.analyzed_goals,
         total_monthly_sip_needed |-> loop.value.total_monthly_sip_needed,
         goal_priorities |-> loop.value.goal_priorities,
         feasibility_analysis |->
             assess_feasibility(loop.value.total_monthly_sip_needed,
                                monthly_income),
         optimization_suggestions |->
             optimize_goals(loop.value.analyzed_goals, monthly_income)])

\* analyze_goals past its empty-list test: the loop over user_goals and the
\* result built from it
AnalyzeNonEmpty(user_goals, monthly_income, current_savings) ==
    AnalysisResult(AnalyzeLoop(user_goals, 1, monthly_income, current_savings,
                               LoopStart),
                   monthly_income)

----------------------------------------------------------------------------
(* Inputs.  An optional dict key is a sequence of length 0 (absent) or 1. *)

Option(key, o) == IF o = <<>> THEN <<>> ELSE (key :> o[1])

\* a goal request: a dict over a subset of the four keys
GoalRequest(name, amount, time_years, savings) ==
    Option("name", name) @@ Option("amount", amount)
        @@ Option("time_years", time_years) @@ Option("current_savings", savings)

GoalNames ==
    {<<"E", "m", "e", "r", "g", "e", "n", "c", "y", " ", "F", "u", "n", "d">>,
     <<"e", "m", "e", "r", "g", "e", "n", "c", "y", "_", "f", "u", "n", "d">>,
     <<"R", "e", "t", "i", "r", "e", "m", "e", "n", "t", " ", "C", "o", "r", "p", "u", "s">>,
     <<"H", "o", "u", "s", "e", " ", "P", "u", "r", "c", "h", "a", "s", "e">>,
     <<"c", "a", "r">>,
     <<"c", "h", "i", "l", "d", "_", "e", "d", "u", "c", "a", "t", "i", "o", "n">>,
     <<"c", "h", "i", "l", "d">>,
     <<"V", "a", "c", "a", "t", "i", "o", "n">>,
     <<"M", "a", "r", "r", "i", "a", "g", "e">>,
     <<"B", "i", "k", "e">>,
     <<"h", "o", "u", "s", "e">>,
     <<"e">>}

NameInputs == {<<>>} \cup {<<n>> : n \in GoalNames}

AmountInputs == {<<>>, <<0>>, <<1000>>, <<120000>>, <<1000000>>}

\* horizons in quarter-years: -2, -1, 0, 0.25, 1, 2, 2.25, 5, 5.25, 10 and
\* 10.25 years and the longest
TimeInputs ==
    {<<>>} \cup {<<q>> : q \in {-8, -4, 0, 1, 4, 8, 9, 20, 21, 40, 41, MaxQuarters}}

SavingsInputs == {<<>>, <<0>>, <<50000>>}

\* every request tried on analyze_single_goal
SingleGoalInputs ==
    {GoalRequest(n, a, t, s) :
        n \in NameInputs, a \in AmountInputs, t \in TimeInputs, s \in SavingsInputs}

\* the request lists for analyze_goals are made of: a critical template, a
\* high one, no template; amount absent or given; 2 and 10 years; two
\* requests that are due now; and one whose horizon is -2 years (the
\* endpoint passes the goals of the request body on as they are)
ListGoalInputs ==
    {GoalRequest(n, a, t, <<>>) :
        n \in {<<<<"e", "m", "e", "r", "g", "e", "n", "c", "y", "_", "f", "u", "n", "d">>>>,
               <<<<"M", "a", "r", "r", "i", "a", "g", "e">>>>,
               <<<<"B", "i", "k", "e">>>>},
        a \in {<<>>, <<120000>>, <<1000000>>},
        t \in {<<8>>, <<40>>}}
    \cup {GoalRequest(<<<<"B", "i", "k", "e">>>>, <<1000>>, <<0>>, <<>>),
          GoalRequest(<<<<"e", "m", "e", "r", "g", "e", "n", "c", "y", "_", "f", "u", "n", "d">>>>, <<>>, <<0>>, <<0>>),
          GoalRequest(<<<<"B", "i", "k", "e">>>>, <<120000>>, <<-8>>, <<>>)}

GoalLists == UNION {[1..n -> ListGoalInputs] : n \in 0..MaxGoals}

Incomes == {0, 20000, 30000, 50000}

DefaultSavingsInputs == {0, 30000}

\* total_sip_needed values at and one paise either side of 15, 25, 30, 35
\* and 40 percent of the income, and 0, in paise
TotalInputs(monthly_income) ==
    {k * monthly_income + d : k \in {0, 15, 25, 30, 35, 40}, d \in {-1, 0, 1}}
        \ {-1}

\* target amounts (rupees) and horizons (quarter-years: from -1 year to 7.5
\* years, and the longest) tried on generate_milestones
MilestoneTargets == {0, 1, 1000, 999999, 15000000}

MilestoneYears == (-4..30) \cup {MaxQuarters}

\* monthly_sip values around each whole percentage of the income, in paise
SipInputs(monthly_income) ==
    {k * monthly_income + d : k \in 0..MaxPct, d \in {-1, 0, 1}} \ {-1}

----------------------------------------------------------------------------
(* The state machine: one call at a time on the shared GoalAgent *)

NoCall == [none |-> TRUE]

\* the clock passes into the next period before none of a call's reads, or
\* before its second, ..., its MaxTick-th
ClockInputs == {0} \cup 2..MaxTick

\* an outcome with the target_date of every milestone left out
GoalWithoutDates(goal) ==
    [goal EXCEPT !.milestone_tracking =
        [i \in 1..Len(goal.milestone_tracking) |->
            [milestone |-> goal.milestone_tracking[i].milestone,
             target_amount |-> goal.milestone_tracking[i].target_amount,
             percentage |-> goal.milestone_tracking[i].percentage]]]

GoalsWithoutDates(goals) ==
    [i \in 1..Len(goals) |-> GoalWithoutDates(goals[i])]

\* the goals are in the result twice: in goals and, by priority, in
\* goal_priorities
WithoutDates(outcome) ==
    IF outcome.kind = "raise" THEN outcome
    ELSE [outcome EXCEPT
             !.value.goals = GoalsWithoutDates(outcome.value.goals),
             !.value.goal_priorities =
                 [p \in DOMAIN outcome.value.goal_priorities |->
                     GoalsWithoutDates(outcome.value.goal_priorities[p])]]

\* the worker threads that serve requests on the one goal_agent
Threads == {"worker 1", "worker 2"}

IdleThread == [pc |-> "idle"]

\* the goals of the requests served concurrently: a critical template
\* without amount, a high one, no template
ThreadGoalInputs ==
    {GoalRequest(<<<<"e", "m", "e", "r", "g", "e", "n", "c", "y", "_", "f", "u", "n", "d">>>>, <<>>, <<8>>, <<>>),
     GoalRequest(<<<<"M", "a", "r", "r", "i", "a", "g", "e">>>>, <<1000000>>, <<40>>, <<>>),
     GoalRequest(<<<<"B", "i", "k", "e">>>>, <<120000>>, <<8>>, <<>>)}

ThreadGoalLists == UNION {[1..n -> ThreadGoalInputs] : n \in 0..MaxGoals}

ThreadIncomes == {20000, 50000}

\* a user as registered: no income stored (read as 0), risk_appetite at
\* its column default
NewUser == [monthly_income |-> 0, risk_appetite |-> "moderate"]

NoRequest == [pc |-> "idle"]

\* the largest income calculate_plan accepts
MaxPlanIncome == 100000000

\* a JSON value of the request body: a number, or text that float() rejects
Number(n) == [kind |-> "number", value |-> n]

Text == [kind |-> "text"]

\* the request bodies tried on /api/calculate-plan: income absent, not a
\* number, negative, zero, positive, over the maximum; risk absent or
\* given; goals absent or given
PlanBodies ==
    {Option("income", i) @@ Option("risk", r) @@ Option("goals", g) :
        i \in {<<>>, <<Text>>} \cup {<<Number(n)>> : n \in {-20000, -1, 0, 1, 20000, 50000, MaxPlanIncome + 1}},
        r \in {<<>>, <<"conservative">>, <<"aggressive">>},
        g \in {<<>>, <<<<GoalRequest(<<<<"B", "i", "k", "e">>>>, <<120000>>, <<8>>, <<>>)>>>>}}

\* float(sanitize_input(str(data.get('income', 0)))): the default 0 and
\* every number are parsed, other text makes float() raise
ParseIncome(data) ==
    IF "income" \notin DOMAIN data THEN Returned(0)
    ELSE IF data["income"].kind = "number" THEN Returned(data["income"].value)
    ELSE Raised("ValueError")

\* InvestmentAgent.portfolio_templates, the percentages in the order of the
\* dict's keys
Categories == <<"equity", "debt", "alternative", "liquid">>

PortfolioTemplates ==
    [conservative |-> [equity |-> 20, debt |-> 60, alternative |-> 10, liquid |-> 10],
     moderate     |-> [equity |-> 50, debt |-> 30, alternative |-> 10, liquid |-> 10],
     aggressive   |-> [equity |-> 70, debt |-> 15, alternative |-> 10, liquid |-> 5]]

\* portfolio_templates.get(risk_appetite, portfolio_templates['moderate'])
BaseAllocation(risk_appetite) ==
    IF risk_appetite \in DOMAIN PortfolioTemplates
    THEN PortfolioTemplates[risk_appetite]
    ELSE PortfolioTemplates["moderate"]

\* Python's round(a / c) for a >= 0 < c: to the nearest integer, a half to
\* the even one
RoundHalfEven(a, c) ==
    IF 2 * (a % c) > c \/ (2 * (a % c) = c /\ (a \div c) % 2 = 1)
    THEN a \div c + 1
    ELSE a \div c

\* the income-based adjustments of adjust_allocation_by_income
AdjustedByIncome(adjusted, income) ==
    IF income < 30000
    THEN [adjusted EXCEPT !.equity = Max(@ - 10, 10),
                          !.debt = Min(@ + 5, 70),
                          !.liquid = Min(@ + 5, 20)]
    ELSE IF income > 150000
    THEN [adjusted EXCEPT !.equity = Min(@ + 10, 80),
                          !.liquid = Max(@ - 5, 5),
                          !.alternative = Min(@ + 5, 15)]
    ELSE adjusted

\* its time horizon adjustments, time_horizon in years
AdjustedByHorizon(adjusted, time_horizon) ==
    IF time_horizon < 3
    THEN [adjusted EXCEPT !.equity = Max(@ - 20, 10),
                          !.debt = Min(@ + 10, 60),
                          !.liquid = Min(@ + 10, 30)]
    ELSE IF time_horizon > 15
    THEN [adjusted EXCEPT !.equity = Min(@ + 15, 85),
                          !.debt = Max(@ - 10, 10)]
    ELSE adjusted

\* sum(v for k, v in adjusted.items() if k != 'description')
AllocationTotal(adjusted) ==
    adjusted.equity + adjusted.debt + adjusted.alternative + adjusted.liquid

\* `adjusted[key] = round(adjusted[key] * 100 / total)` for the four keys
Normalized(adjusted, total) ==
    [key \in DOMAIN adjusted |-> RoundHalfEven(adjusted[key] * 100, total)]

\* adjust_allocation_by_income(base_allocation, income, time_horizon)
adjust_allocation_by_income(base_allocation, income, time_horizon) ==
    Normalized(
        AdjustedByHorizon(AdjustedByIncome(base_allocation, income), time_horizon),
        AllocationTotal(
            AdjustedByHorizon(AdjustedByIncome(base_allocation, income),
                              time_horizon)))

\* the risk appetites, incomes and horizons (years) the allocation is asked
\* for: each side of the income and horizon thresholds
RiskAppetites == {"conservative", "moderate", "aggressive"}

AllocationIncomes == {20000, 29999, 30000, 100000, 150000, 150001, 200000}

AllocationHorizons == {1, 2, 3, 10, 15, 16, 20}

\* InvestmentAgent.investment_options: per category the instruments in the
\* order of the list, `return` in tenths of a percent; no instrument has a
\* weight
InvestmentOptions ==
    [equity |->
        <<[name |-> "Large Cap Funds", return |-> 120, risk |-> 15],
          [name |-> "Mid Cap Funds", return |-> 150, risk |-> 25],
          [name |-> "Small Cap Funds", return |-> 180, risk |-> 35],
          [name |-> "ELSS Funds", return |-> 140, risk |-> 20],
          [name |-> "Index Funds", return |-> 110, risk |-> 12]>>,
     debt |->
        <<[name |-> "PPF", return |-> 71, risk |-> 0],
          [name |-> "NSC", return |-> 68, risk |-> 0],
          [name |-> "Corporate Bonds", return |-> 80, risk |-> 5],
          [name |-> "Debt Funds", return |-> 70, risk |-> 3],
          [name |-> "FD", return |-> 55, risk |-> 0]>>,
     alternative |->
        <<[name |-> "Gold ETF", return |-> 80, risk |-> 15],
          [name |-> "REITs", return |-> 100, risk |-> 18],
          [name |-> "Commodity Funds", return |-> 90, risk |-> 20]>>,
     liquid |->
        <<[name |-> "Liquid Funds", return |-> 40, risk |-> 1],
          [name |-> "Ultra Short Duration Funds", return |-> 50, risk |-> 2],
          [name |-> "Savings Account", return |-> 30, risk |-> 0]>>]

\* sorted(instruments, key=...): the positions of the instruments in the
\* sorted list, the sort being stable; key[i] is the key of the i-th
SortedPositions(key) ==
    [k \in DOMAIN key |->
        CHOOSE i \in DOMAIN key :
            Cardinality({j \in DOMAIN key :
                            key[j] < key[i] \/ (key[j] = key[i] /\ j < i)})
                = k - 1]

\* the positions, in the category's list, of the instruments
\* select_best_instruments selects: the three of lowest risk, the three of
\* highest return, or the first three
Selected(instruments, risk_appetite) ==
    IF risk_appetite = "conservative"
    THEN SubSeq(SortedPositions([i \in DOMAIN instruments |->
                                    instruments[i].risk]), 1, 3)
    ELSE IF risk_appetite = "aggressive"
    THEN SubSeq(SortedPositions([i \in DOMAIN instruments |->
                                    -instruments[i].return]), 1, 3)
    ELSE <<1, 2, 3>>

\* the weights select_best_instruments gives the selected instruments
Weights(risk_appetite) ==
    IF risk_appetite \in {"conservative", "aggressive"}
    THEN <<50, 30, 20>>
    ELSE <<40, 35, 25>>

\* `instrument['weight'] = weights[i]` for the selected instruments: the
\* instruments of the category afterwards
WithWeights(instruments, selected, weights) ==
    [i \in DOMAIN instruments |->
        IF \E k \in DOMAIN selected : selected[k] = i
        THEN [weight |-> weights[CHOOSE k \in DOMAIN selected : selected[k] = i]]
                 @@ instruments[i]
        ELSE instruments[i]]

\* the sums of suggest_portfolio's inner loop over the selected instruments
\* as they are in the table: the sum of weight * return (or risk)
RECURSIVE WeightedSum(_, _, _, _)
WeightedSum(instruments, selected, field, k) ==
    IF k = 0 THEN 0
    ELSE instruments[selected[k]].weight * instruments[selected[k]][field]
            + WeightedSum(instruments, selected, field, k - 1)

\* the incomes the portfolios are suggested for
PortfolioIncomes == {20000, 50000}

\* suggest_portfolio's default time_horizon, in years
DefaultTimeHorizon == 10

\* BudgetAgent.budget_templates, the shares in percent
BudgetTemplates ==
    [low_income    |-> [needs |-> 65, wants |-> 20, savings |-> 15],
     middle_income |-> [needs |-> 50, wants |-> 30, savings |-> 20],
     upper_middle  |-> [needs |-> 40, wants |-> 35, savings |-> 25],
     high_income   |-> [needs |-> 30, wants |-> 40, savings |-> 30]]

\* BudgetAgent.risk_adjustments: savings_boost in percent,
\* emergency_multiplier in tenths
RiskAdjustments ==
    [conservative |-> [emergency_multiplier |-> 12, savings_boost |-> 5],
     moderate     |-> [emergency_multiplier |-> 10, savings_boost |-> 0],
     aggressive   |-> [emergency_multiplier |-> 8, savings_boost |-> -3]]

\* risk_adjustments.get(risk_appetite, risk_adjustments['moderate'])
RiskAdjustment(risk_appetite) ==
    IF risk_appetite \in DOMAIN RiskAdjustments
    THEN RiskAdjustments[risk_appetite]
    ELSE RiskAdjustments["moderate"]

\* get_income_category(monthly_income)
get_income_category(monthly_income) ==
    IF monthly_income <= 50000 THEN "low_income"
    ELSE IF monthly_income <= 200000 THEN "middle_income"
    ELSE IF monthly_income <= 500000 THEN "upper_middle"
    ELSE "high_income"

\* the percentage of the needs that get_needs_breakdown gives its first
\* category, housing
HousingShare(monthly_income) ==
    IF monthly_income <= 50000 THEN 40
    ELSE IF monthly_income <= 200000 THEN 35
    ELSE 30

\* adjusted_wants when the boost of the savings is not taken from the wants
AdjustedWantsUnreduced(wants, savings_boost) == Max(10, wants)

\* adjusted_wants = max(0.10, base_template['wants'] - savings_boost)
AdjustedWants(wants, savings_boost) == Max(10, wants - savings_boost)

\* adjusted_savings = max(0.10, base_template['savings'] + savings_boost)
AdjustedSavings(savings, savings_boost) == Max(10, savings + savings_boost)

\* calculate_budget(monthly_income, risk_appetite).  Percentages in
\* percent, amounts in paise, the housing amount (the needs amount times
\* 0.40, 0.35 or 0.30) in 1/1000 of a rupee, which every share divides into,
\* months_coverage in tenths of a month, target_amount in tenths of a
\* rupee, monthly_allocation in 1/1200 of a
\* rupee: min(income * 0.05, income * months / 24).  Not carried: the other
\* breakdown categories, descriptions, recommendations (no check reads
\* them).
calculate_budget(monthly_income, risk_appetite) ==
    LET base_template == BudgetTemplates[get_income_category(monthly_income)]
        risk_adjustment == RiskAdjustment(risk_appetite)
        adjusted_needs == base_template.needs
        adjusted_wants ==
            AdjustedWants(base_template.wants, risk_adjustment.savings_boost)
        adjusted_savings ==
            AdjustedSavings(base_template.savings, risk_adjustment.savings_boost)
        emergency_months == 6 * risk_adjustment.emergency_multiplier
    IN  [monthly_income |-> monthly_income,
         income_category |-> get_income_category(monthly_income),
         risk_profile |-> risk_appetite,
         needs |-> [amount |-> monthly_income * adjusted_needs,
                    percentage |-> adjusted_needs,
                    housing |-> monthly_income
                                    * ((adjusted_needs
                                          * HousingShare(monthly_income))
                                       \div 10)],
         wants |-> [amount |-> monthly_income * adjusted_wants,
                    percentage |-> adjusted_wants],
         savings |-> [amount |-> monthly_income * adjusted_savings,
                      percentage |-> adjusted_savings],
         emergency_fund |->
            [target_amount |-> monthly_income * emergency_months,
             months_coverage |-> emergency_months,
             monthly_allocation |->
                 Min(monthly_income * 60, monthly_income * emergency_months * 5)]]

\* the issues validate_budget_logic finds, in its order
BudgetIssues(budget) ==
    (IF budget.needs.housing > budget.monthly_income * 500
     THEN <<"Housing cost is too high">> ELSE <<>>)
    \o (IF Abs(budget.needs.percentage + budget.wants.percentage
                   + budget.savings.percentage - 100) > 1
        THEN <<"Budget percentages don't add up to 100%">> ELSE <<>>)
    \o (IF budget.emergency_fund.monthly_allocation
               > budget.monthly_income * 120
        THEN <<"Emergency fund allocation is too high">> ELSE <<>>)

\* validate_budget_logic(budget)
validate_budget_logic(budget) ==
    [is_valid |-> BudgetIssues(budget) = <<>>,
     issues |-> BudgetIssues(budget),
     validation_passed |-> BudgetIssues(budget) = <<>>]

\* the incomes a budget is asked for: each side of the category limits
BudgetIncomes ==
    {1, 10000, 20000, 50000, 50001, 100000, 200000, 200001, 350000, 500000,
     500001, 600000}

\* the risk appetites a budget is asked for, one of them not in the table
BudgetRisks == RiskAppetites \cup {"unknown"}

Init ==
    /\ goal_templates = GoalTemplates
    /\ investment_recommendations = InvestmentRecommendations
    /\ pc = "idle"
    /\ op = "none"
    /\ args = NoCall
    /\ result = NoCall
    /\ stack = <<>>
    /\ clock = 0
    /\ earlier = NoCall
    /\ threads = [t \in Threads |-> IdleThread]
    /\ user = NewUser
    /\ plan = NoRequest
    /\ handled = 0
    /\ investment_options = InvestmentOptions
    /\ portfolios = [t \in Threads |-> IdleThread]

\* a caller invokes analyze_goals
CallAnalyzeGoals ==
    /\ pc = "idle"
    /\ \E user_goals \in GoalLists, monthly_income \in Incomes,
          current_savings \in DefaultSavingsInputs :
          args' = [user_goals |-> user_goals,
                   monthly_income |-> monthly_income,
                   current_savings |-> current_savings]
    /\ clock' \in ClockInputs
    /\ op' = "analyze_goals"
    /\ pc' = "called"
    /\ UNCHANGED <<goal_templates, investment_recommendations, result, stack,
                   earlier, otherVars>>

\* analyze_goals with no goals: `return self.generate_default_goals(
\* monthly_income)`, which builds default_goals and calls
\* analyze_goals(default_goals, monthly_income); the caller waits on the stack
GenerateDefaultGoals ==
    /\ pc = "called"
    /\ op = "analyze_goals"
    /\ args.user_goals = <<>>
    /\ Len(stack) < MaxDepth
    /\ stack' = Append(stack, args)
    /\ args' = [user_goals |-> DefaultGoals(args.monthly_income),
                monthly_income |-> args.monthly_income,
                current_savings |-> 0]
    /\ UNCHANGED <<goal_templates, investment_recommendations, pc, op, result,
                   clock, earlier, otherVars>>

\* analyze_goals with goals: the loop and the returned dict (or the error)
AnalyzeGoals ==
    /\ pc = "called"
    /\ op = "analyze_goals"
    /\ args.user_goals # <<>>
    /\ result' = AnalyzeNonEmpty(args.user_goals, args.monthly_income,
                                 args.current_savings)
    /\ pc' = "returned"
    /\ UNCHANGED <<goal_templates, investment_recommendations, op, args, stack,
                   clock, earlier, otherVars>>

\* generate_default_goals returns what its call returned (or raised), and so
\* does the analyze_goals that called it
ReturnDefaultGoals ==
    /\ pc = "returned"
    /\ op = "analyze_goals"
    /\ stack # <<>>
    /\ args' = stack[Len(stack)]
    /\ stack' = SubSeq(stack, 1, Len(stack) - 1)
    /\ UNCHANGED <<goal_templates, investment_recommendations, pc, op, result,
                   clock, earlier, otherVars>>

\* a caller invokes assess_feasibility
CallAssessFeasibility ==
    /\ pc = "idle"
    /\ \E monthly_income \in Incomes :
         \E total_sip_needed \in TotalInputs(monthly_income) :
            args' = [total_sip_needed |-> total_sip_needed,
                     monthly_income |-> monthly_income]
    /\ clock' = 0
    /\ op' = "assess_feasibility"
    /\ pc' = "called"
    /\ UNCHANGED <<goal_templates, investment_recommendations, result, stack,
                   earlier, otherVars>>

\* goal_agent.assess_feasibility(total_sip_needed, monthly_income);
\* total_sip_needed / monthly_income raises for monthly_income = 0
AssessFeasibility ==
    /\ pc = "called"
    /\ op = "assess_feasibility"
    /\ result' = IF args.monthly_income = 0
                 THEN Raised("ZeroDivisionError")
                 ELSE Returned(assess_feasibility(
                                   args.total_sip_needed, args.monthly_income))
    /\ pc' = "returned"
    /\ UNCHANGED <<goal_templates, investment_recommendations, op, args, stack,
                   clock, earlier, otherVars>>

\* a caller invokes analyze_single_goal
CallAnalyzeSingleGoal ==
    /\ pc = "idle"
    /\ \E goal \in SingleGoalInputs, monthly_income \in Incomes,
          current_savings \in DefaultSavingsInputs :
          args' = [goal |-> goal,
                   monthly_income |-> monthly_income,
                   current_savings |-> current_savings]
    /\ clock' \in ClockInputs
    /\ op' = "analyze_single_goal"
    /\ pc' = "called"
    /\ UNCHANGED <<goal_templates, investment_recommendations, result, stack,
                   earlier, otherVars>>

\* goal_agent.analyze_single_goal(goal, monthly_income, current_savings)
AnalyzeSingleGoal ==
    /\ pc = "called"
    /\ op = "analyze_single_goal"
    /\ result' = analyze_single_goal(args.goal, args.monthly_income,
                                     args.current_savings, 0)
    /\ pc' = "returned"
    /\ UNCHANGED <<goal_templates, investment_recommendations, op, args, stack,
                   clock, earlier, otherVars>>

\* a caller invokes calculate_feasibility_score
CallCalculateFeasibilityScore ==
    /\ pc = "idle"
    /\ \E monthly_income \in Incomes :
         \E monthly_sip \in SipInputs(monthly_income) :
            args' = [monthly_sip |-> monthly_sip,
                     monthly_income |-> monthly_income]
    /\ clock' = 0
    /\ op' = "calculate_feasibility_score"
    /\ pc' = "called"
    /\ UNCHANGED <<goal_templates, investment_recommendations, result, stack,
                   earlier, otherVars>>

\* goal_agent.calculate_feasibility_score(monthly_sip, monthly_income);
\* monthly_sip / monthly_income raises for monthly_income = 0
CalculateFeasibilityScore ==
    /\ pc = "called"
    /\ op = "calculate_feasibility_score"
    /\ result' = IF args.monthly_income = 0
                 THEN Raised("ZeroDivisionError")
                 ELSE Returned(calculate_feasibility_score(
                                   args.monthly_sip, args.monthly_income))
    /\ pc' = "returned"
    /\ UNCHANGED <<goal_templates, investment_recommendations, op, args, stack,
                   clock, earlier, otherVars>>

\* a caller invokes generate_milestones
CallGenerateMilestones ==
    /\ pc = "idle"
    /\ \E target_amount \in MilestoneTargets, years \in MilestoneYears :
          args' = [target_amount |-> target_amount, years |-> years]
    /\ clock' \in ClockInputs
    /\ op' = "generate_milestones"
    /\ pc' = "called"
    /\ UNCHANGED <<goal_templates, investment_recommendations, result, stack,
                   earlier, otherVars>>

\* goal_agent.generate_milestones(target_amount, years)
GenerateMilestones ==
    /\ pc = "called"
    /\ op = "generate_milestones"
    /\ result' = Returned(generate_milestones(args.target_amount, args.years, 0))
    /\ pc' = "returned"
    /\ UNCHANGED <<goal_templates, investment_recommendations, op, args, stack,
                   clock, earlier, otherVars>>

\* a Return after which the agent is not as it was: the first catalog entry
\* has its income multiple changed (6 to 7), as a write to the matched
\* template during the call would leave it
ReturnLeavingState ==
    /\ pc = "returned"
    /\ stack = <<>>
    /\ pc' = "idle"
    /\ op' = "none"
    /\ args' = NoCall
    /\ result' = NoCall
    /\ clock' = 0
    /\ earlier' = IF earlier # NoCall /\ op = "analyze_goals"
                      /\ args # earlier.args
                   THEN [earlier EXCEPT !.between = TRUE]
                   ELSE earlier
    /\ goal_templates' = [goal_templates EXCEPT ![1].typical_amount = 7]
    /\ UNCHANGED <<investment_recommendations, stack, otherVars>>

\* the caller takes the outcome; the agent is ready for the next call
Return ==
    /\ pc = "returned"
    /\ stack = <<>>
    /\ pc' = "idle"
    /\ op' = "none"
    /\ args' = NoCall
    /\ result' = NoCall
    /\ clock' = 0
    /\ earlier' = IF earlier # NoCall /\ op = "analyze_goals"
                      /\ args # earlier.args
                   THEN [earlier EXCEPT !.between = TRUE]
                   ELSE earlier
    /\ UNCHANGED <<goal_templates, investment_recommendations, stack, otherVars>>

\* the caller takes the outcome of analyze_goals and keeps it, milestone
\* dates aside, to compare later outcomes with
KeepOutcome ==
    /\ pc = "returned"
    /\ op = "analyze_goals"
    /\ stack = <<>>
    /\ earlier = NoCall
    /\ earlier' = [args |-> args, outcome |-> WithoutDates(result),
                   between |-> FALSE]
    /\ pc' = "idle"
    /\ op' = "none"
    /\ args' = NoCall
    /\ result' = NoCall
    /\ clock' = 0
    /\ UNCHANGED <<goal_templates, investment_recommendations, stack, otherVars>>

Next ==
    \/ CallAnalyzeGoals
    \/ GenerateDefaultGoals
    \/ AnalyzeGoals
    \/ ReturnDefaultGoals
    \/ CallAssessFeasibility
    \/ AssessFeasibility
    \/ Return

Spec == Init /\ [][Next]_vars

NextSingle == CallAnalyzeSingleGoal \/ AnalyzeSingleGoal \/ Return

SingleSpec == Init /\ [][NextSingle]_vars

NextScore == CallCalculateFeasibilityScore \/ CalculateFeasibilityScore \/ Return

ScoreSpec == Init /\ [][NextScore]_vars

NextMilestones == CallGenerateMilestones \/ GenerateMilestones \/ Return

MilestoneSpec == Init /\ [][NextMilestones]_vars

\* a caller invokes analyze_goals with no goals or with one
CallAnalyzeGoalsShort ==
    /\ pc = "idle"
    /\ \E user_goals \in {<<>>} \cup {<<g>> : g \in ListGoalInputs},
          monthly_income \in Incomes,
          current_savings \in DefaultSavingsInputs :
          args' = [user_goals |-> user_goals,
                   monthly_income |-> monthly_income,
                   current_savings |-> current_savings]
    /\ clock' \in ClockInputs
    /\ op' = "analyze_goals"
    /\ pc' = "called"
    /\ UNCHANGED <<goal_templates, investment_recommendations, result, stack,
                   earlier, otherVars>>

NextDefaults ==
    \/ CallAnalyzeGoalsShort
    \/ GenerateDefaultGoals
    \/ AnalyzeGoals
    \/ ReturnDefaultGoals
    \/ Return

\* what the steps of a running analyze_goals do to pc and stack: it enters
\* generate_default_goals, ends its loop, or returns into the waiting caller
Runs ==
    /\ op = "analyze_goals"
    /\ \/ /\ pc = "called"
          /\ args.user_goals = <<>>
          /\ Len(stack) < MaxDepth
          /\ pc' = pc
          /\ stack' = Append(stack, args)
       \/ /\ pc = "called"
          /\ args.user_goals # <<>>
          /\ pc' = "returned"
          /\ stack' = stack
       \/ /\ pc = "returned"
          /\ stack # <<>>
          /\ pc' = pc
          /\ stack' = SubSeq(stack, 1, Len(stack) - 1)

\* analyze_goals runs once called: the interpreter executes the call, the
\* re-entry through generate_default_goals and the return to the caller
DefaultsSpec ==
    /\ Init
    /\ [][NextDefaults]_vars
    /\ WF_<<pc, stack>>(Runs)

\* analyze_goals called again and again, one outcome kept
NextRepeat ==
    \/ CallAnalyzeGoalsShort
    \/ GenerateDefaultGoals
    \/ AnalyzeGoals
    \/ ReturnDefaultGoals
    \/ Return
    \/ KeepOutcome

RepeatSpec == Init /\ [][NextRepeat]_vars

\* the targets (rupees), annual returns (percent) and horizons (quarter-years)
\* the two formulas are called with directly
SipTargets == {-1000000, -1000, 0, 1000, 120000, 1000000}

SipReturns == {0, 4, 5, 9, 12}

SipYears == {-4, 0, 1, 4, 8, 40, MaxQuarters}

\* the monthly amounts (paise) calculate_future_value is called with: what
\* calculate_sip_amount gave for a target that is not negative, and two
\* amounts of the caller's own
FutureValueSips(annual_return, years) ==
    {calculate_sip_amount(target_amount, annual_return, years) :
        target_amount \in {t \in SipTargets : t >= 0}} \cup {0, 100000}

\* a caller invokes calculate_sip_amount
CallCalculateSipAmount ==
    /\ pc = "idle"
    /\ \E target_amount \in SipTargets, annual_return \in SipReturns,
          years \in SipYears :
          args' = [target_amount |-> target_amount,
                   annual_return |-> annual_return, years |-> years]
    /\ clock' = 0
    /\ op' = "calculate_sip_amount"
    /\ pc' = "called"
    /\ UNCHANGED <<goal_templates, investment_recommendations, result, stack,
                   earlier, otherVars>>

\* goal_agent.calculate_sip_amount(target_amount, annual_return, years)
CalculateSipAmount ==
    /\ pc = "called"
    /\ op = "calculate_sip_amount"
    /\ result' = IF SipDivisionByZero(args.annual_return, args.years)
                 THEN Raised("ZeroDivisionError")
                 ELSE Returned(calculate_sip_amount(
                          args.target_amount, args.annual_return, args.years))
    /\ pc' = "returned"
    /\ UNCHANGED <<goal_templates, investment_recommendations, op, args, stack,
                   clock, earlier, otherVars>>

\* a caller invokes calculate_future_value
CallCalculateFutureValue ==
    /\ pc = "idle"
    /\ \E annual_return \in SipReturns, years \in SipYears :
         \E monthly_sip \in FutureValueSips(annual_return, years) :
            args' = [monthly_sip |-> monthly_sip,
                     annual_return |-> annual_return, years |-> years]
    /\ clock' = 0
    /\ op' = "calculate_future_value"
    /\ pc' = "called"
    /\ UNCHANGED <<goal_templates, investment_recommendations, result, stack,
                   earlier, otherVars>>

\* goal_agent.calculate_future_value(monthly_sip, annual_return, years)
CalculateFutureValue ==
    /\ pc = "called"
    /\ op = "calculate_future_value"
    /\ result' = Returned(calculate_future_value(
                     args.monthly_sip, args.annual_return, args.years))
    /\ pc' = "returned"
    /\ UNCHANGED <<goal_templates, investment_recommendations, op, args, stack,
                   clock, earlier, otherVars>>

NextFormulas ==
    \/ CallCalculateSipAmount
    \/ CalculateSipAmount
    \/ CallCalculateFutureValue
    \/ CalculateFutureValue
    \/ Return

FormulaSpec == Init /\ [][NextFormulas]_vars

\* a caller invokes adjust_allocation_by_income with a template
CallAdjustAllocation ==
    /\ pc = "idle"
    /\ \E risk_appetite \in RiskAppetites, income \in AllocationIncomes,
          time_horizon \in AllocationHorizons :
          args' = [base_allocation |-> BaseAllocation(risk_appetite),
                   income |-> income, time_horizon |-> time_horizon]
    /\ clock' = 0
    /\ op' = "adjust_allocation_by_income"
    /\ pc' = "called"
    /\ UNCHANGED <<goal_templates, investment_recommendations, result, stack,
                   earlier, otherVars>>

\* investment_agent.adjust_allocation_by_income(base_allocation, income,
\* time_horizon)
AdjustAllocation ==
    /\ pc = "called"
    /\ op = "adjust_allocation_by_income"
    /\ result' = Returned(adjust_allocation_by_income(
                     args.base_allocation, args.income, args.time_horizon))
    /\ pc' = "returned"
    /\ UNCHANGED <<goal_templates, investment_recommendations, op, args, stack,
                   clock, earlier, otherVars>>

NextAllocation == CallAdjustAllocation \/ AdjustAllocation \/ Return

AllocationSpec == Init /\ [][NextAllocation]_vars

\* a request thread calls investment_agent.suggest_portfolio(monthly_income,
\* risk_appetite): the allocation is adjusted and the portfolio set up
PortfolioCall(t) ==
    /\ portfolios[t].pc = "idle"
    /\ \E risk_appetite \in RiskAppetites, monthly_income \in PortfolioIncomes :
          portfolios' = [portfolios EXCEPT ![t] =
              [pc |-> "select",
               risk_appetite |-> risk_appetite,
               monthly_income |-> monthly_income,
               adjusted_allocation |->
                   adjust_allocation_by_income(BaseAllocation(risk_appetite),
                       monthly_income, DefaultTimeHorizon),
               allocation |-> <<>>,
               total_expected_return |-> 0,
               total_risk_score |-> 0]]
    /\ UNCHANGED <<investment_options, notInvest>>

\* the category the loop of suggest_portfolio is at
CategoryOf(portfolio) == Categories[Len(portfolio.allocation) + 1]

\* select_best_instruments(category, risk_appetite) for the next category:
\* the weights are written into the instruments of the shared table, and
\* the list returned holds these instruments themselves (here: their
\* positions in the table)
PortfolioSelect(t) ==
    /\ portfolios[t].pc = "select"
    /\ LET category == CategoryOf(portfolios[t])
           selected == Selected(investment_options[category],
                                portfolios[t].risk_appetite)
       IN  /\ investment_options' =
                 [investment_options EXCEPT ![category] =
                     WithWeights(@, selected,
                                 Weights(portfolios[t].risk_appetite))]
           /\ portfolios' = [portfolios EXCEPT ![t] =
                 [pc |-> "weigh", best_instruments |-> selected]
                     @@ portfolios[t]]
    /\ UNCHANGED notInvest

\* the rest of the iteration: the category enters the portfolio, and the
\* weights are read back from the instruments for the expected return and
\* the risk score (kept in units of 1/100000 and 1/10000)
PortfolioWeigh(t) ==
    /\ portfolios[t].pc = "weigh"
    /\ LET portfolio == portfolios[t]
           category == CategoryOf(portfolio)
           percentage == portfolio.adjusted_allocation[category]
           entered == Append(portfolio.allocation,
                             [category |-> category, percentage |-> percentage,
                              instruments |-> portfolio.best_instruments])
       IN  portfolios' = [portfolios EXCEPT ![t] =
              [pc |-> IF Len(entered) = Len(Categories) THEN "finish"
                      ELSE "select",
               allocation |-> entered,
               total_expected_return |->
                   portfolio.total_expected_return
                     + percentage * WeightedSum(investment_options[category],
                           portfolio.best_instruments, "return", 3),
               total_risk_score |->
                   portfolio.total_risk_score
                     + percentage * WeightedSum(investment_options[category],
                           portfolio.best_instruments, "risk", 3)]
                  @@ portfolio]
    /\ UNCHANGED <<investment_options, notInvest>>

\* suggest_portfolio returns the portfolio: expected_annual_return and
\* risk_score rounded to 2 decimals (in hundredths); the instruments in its
\* allocation are those of the table
PortfolioReturn(t) ==
    /\ portfolios[t].pc = "finish"
    /\ portfolios' = [portfolios EXCEPT ![t] =
          [pc |-> "done",
           risk_profile |-> portfolios[t].risk_appetite,
           monthly_income |-> portfolios[t].monthly_income,
           expected_annual_return |->
               RoundHalfEven(portfolios[t].total_expected_return, 1000),
           risk_score |-> RoundHalfEven(portfolios[t].total_risk_score, 100),
           allocation |-> portfolios[t].allocation]]
    /\ UNCHANGED <<investment_options, notInvest>>

NextInvest ==
    \E t \in Threads :
        \/ PortfolioCall(t)
        \/ PortfolioSelect(t)
        \/ PortfolioWeigh(t)
        \/ PortfolioReturn(t)

InvestSpec == Init /\ [][NextInvest]_vars

\* a caller invokes calculate_budget
CallCalculateBudget ==
    /\ pc = "idle"
    /\ \E monthly_income \in BudgetIncomes, risk_appetite \in BudgetRisks :
          args' = [monthly_income |-> monthly_income,
                   risk_appetite |-> risk_appetite]
    /\ clock' = 0
    /\ op' = "calculate_budget"
    /\ pc' = "called"
    /\ UNCHANGED <<goal_templates, investment_recommendations, result, stack,
                   earlier, otherVars>>

\* budget_agent.calculate_budget(monthly_income, risk_appetite)
CalculateBudget ==
    /\ pc = "called"
    /\ op = "calculate_budget"
    /\ result' = Returned(calculate_budget(args.monthly_income,
                                           args.risk_appetite))
    /\ pc' = "returned"
    /\ UNCHANGED <<goal_templates, investment_recommendations, op, args, stack,
                   clock, earlier, otherVars>>

\* the caller passes the budget it got to validate_budget_logic
CallValidateBudgetLogic ==
    /\ pc = "returned"
    /\ op = "calculate_budget"
    /\ result.kind = "return"
    /\ args' = [budget |-> result.value]
    /\ op' = "validate_budget_logic"
    /\ pc' = "called"
    /\ result' = NoCall
    /\ UNCHANGED <<goal_templates, investment_recommendations, stack, clock,
                   earlier, otherVars>>

\* budget_agent.validate_budget_logic(budget)
ValidateBudgetLogic ==
    /\ pc = "called"
    /\ op = "validate_budget_logic"
    /\ result' = Returned(validate_budget_logic(args.budget))
    /\ pc' = "returned"
    /\ UNCHANGED <<goal_templates, investment_recommendations, op, args, stack,
                   clock, earlier, otherVars>>

NextBudget ==
    \/ CallCalculateBudget
    \/ CalculateBudget
    \/ CallValidateBudgetLogic
    \/ ValidateBudgetLogic
    \/ Return

BudgetSpec == Init /\ [][NextBudget]_vars

\* analyze_goals(user_goals, monthly_income) run from call to return with
\* nothing in between: through generate_default_goals for an empty list
OutcomeAlone(request) ==
    IF request.user_goals = <<>>
    THEN AnalyzeNonEmpty(DefaultGoals(request.monthly_income),
                         request.monthly_income, 0)
    ELSE AnalyzeNonEmpty(request.user_goals, request.monthly_income, 0)

\* calculate_plan in a worker thread calls goal_agent.analyze_goals(goals,
\* income): current_savings takes its default 0
ThreadCall(t) ==
    /\ threads[t].pc = "idle"
    /\ \E user_goals \in ThreadGoalLists, monthly_income \in ThreadIncomes :
          threads' = [threads EXCEPT ![t] =
              [pc |-> "entered",
               request |-> [user_goals |-> user_goals,
                            monthly_income |-> monthly_income],
               user_goals |-> user_goals,
               monthly_income |-> monthly_income,
               current_savings |-> 0,
               acc |-> LoopStart,
               result |-> NoCall]]
    /\ UNCHANGED notThreads

\* `if not user_goals: return self.generate_default_goals(monthly_income)`,
\* which calls analyze_goals(default_goals, monthly_income)
ThreadGenerateDefaultGoals(t) ==
    /\ threads[t].pc = "entered"
    /\ threads[t].user_goals = <<>>
    /\ threads' = [threads EXCEPT
                      ![t].user_goals = DefaultGoals(threads[t].monthly_income)]
    /\ UNCHANGED notThreads

\* the outcome of one iteration of the loop: the goal analyzed against the
\* tables as they are now, and the thread after it
ThreadAfterGoal(thread, goal_analysis) ==
    IF goal_analysis.kind = "raise"
    THEN [thread EXCEPT !.pc = "done", !.result = goal_analysis]
    ELSE IF goal_analysis.value.priority \notin DOMAIN thread.acc.goal_priorities
    THEN [thread EXCEPT !.pc = "done", !.result = Raised("KeyError")]
    ELSE [thread EXCEPT !.acc = LoopUpdate(thread.acc, goal_analysis.value)]

\* an iteration that also writes to the catalog: the template found for the
\* goal gets the goal's amount as its income multiple (a write such as
\* template['typical_amount'] = goal['amount'] in analyze_single_goal)
ThreadAnalyzeGoalWritingTemplate(t) ==
    /\ threads[t].pc = "entered"
    /\ threads[t].user_goals # <<>>
    /\ Len(threads[t].acc.analyzed_goals) < Len(threads[t].user_goals)
    /\ threads' = [threads EXCEPT ![t] =
          ThreadAfterGoal(threads[t],
              analyze_single_goal(
                  threads[t].user_goals[Len(threads[t].acc.analyzed_goals) + 1],
                  threads[t].monthly_income, threads[t].current_savings,
                  MilestoneCount(threads[t].acc.analyzed_goals)))]
    /\ goal_templates' =
          [goal_templates EXCEPT ![4].typical_amount =
              Get(threads[t].user_goals[Len(threads[t].acc.analyzed_goals) + 1],
                  "amount", @)]
    /\ UNCHANGED <<investment_recommendations, pc, op, args, result, stack,
                   clock, earlier, planVars, investVars>>

\* one iteration of `for goal in user_goals` in thread t; the other threads
\* may run between two iterations
ThreadAnalyzeGoal(t) ==
    /\ threads[t].pc = "entered"
    /\ threads[t].user_goals # <<>>
    /\ Len(threads[t].acc.analyzed_goals) < Len(threads[t].user_goals)
    /\ threads' = [threads EXCEPT ![t] =
          ThreadAfterGoal(threads[t],
              analyze_single_goal(
                  threads[t].user_goals[Len(threads[t].acc.analyzed_goals) + 1],
                  threads[t].monthly_income, threads[t].current_savings,
                  MilestoneCount(threads[t].acc.analyzed_goals)))]
    /\ UNCHANGED notThreads

\* the loop has ended: the returned dict is built
ThreadFinish(t) ==
    /\ threads[t].pc = "entered"
    /\ threads[t].user_goals # <<>>
    /\ Len(threads[t].acc.analyzed_goals) = Len(threads[t].user_goals)
    /\ threads' = [threads EXCEPT
                      ![t].pc = "done",
                      ![t].result = AnalysisResult(Returned(threads[t].acc),
                                                   threads[t].monthly_income)]
    /\ UNCHANGED notThreads

\* the thread takes the outcome and is free for the next request
ThreadReturn(t) ==
    /\ threads[t].pc = "done"
    /\ threads' = [threads EXCEPT ![t] = IdleThread]
    /\ UNCHANGED notThreads

\* requests served by the worker threads in any interleaving
NextConcurrent ==
    \E t \in Threads :
        \/ ThreadCall(t)
        \/ ThreadGenerateDefaultGoals(t)
        \/ ThreadAnalyzeGoal(t)
        \/ ThreadFinish(t)
        \/ ThreadReturn(t)

ConcurrentSpec == Init /\ [][NextConcurrent]_vars

\* a logged-in client posts a body to /api/calculate-plan, less than a minute
\* after its earlier ones
PlanRequest ==
    /\ plan.pc = "idle"
    /\ handled < MaxRequests
    /\ \E data \in PlanBodies :
          plan' = [pc |-> "received", data |-> data]
    /\ UNCHANGED <<user, handled, notPlan>>

\* `except Exception`: the 500 response
CalculationFailed(called) ==
    [status |-> 500, error |-> "Calculation failed", called |-> called]

\* the agents' calls of calculate_plan, in order, with the income each is
\* given
AgentCalls(income) ==
    <<[agent |-> "budget_agent.calculate_budget", income |-> income],
      [agent |-> "investment_agent.suggest_portfolio", income |-> income],
      [agent |-> "goal_agent.analyze_goals", income |-> income],
      [agent |-> "tax_agent.calculate_tax_savings", income |-> 12 * income]>>

\* the income test with 0 let through
InvalidIncomeNegativeOnly(income) == income < 0 \/ income > MaxPlanIncome

\* the income test of calculate_plan: the request is rejected
InvalidIncome(income) == income <= 0 \/ income > MaxPlanIncome

\* the user as stored and the response of calculate_plan, goals being the
\* outcome of goal_agent.analyze_goals and `called` the agent calls made
PlanWithGoals(data, income, goals) ==
    [user |-> [monthly_income |-> income,
               risk_appetite |-> Get(data, "risk", "moderate")],
     response |->
        IF goals.kind = "raise"
        THEN CalculationFailed(SubSeq(AgentCalls(income), 1, 3))
        ELSE [status |-> 200, goals |-> goals.value,
              called |-> AgentCalls(income)]]

\* calculate_plan from the update of current_user on
PlanForIncome(data, income) ==
    PlanWithGoals(data, income,
                  OutcomeAlone([user_goals |-> Get(data, "goals", <<>>),
                                monthly_income |-> income]))

\* the body of calculate_plan on the body received: the user as stored
\* after it and the response
HandlePlan(data, current_user, parsed) ==
    IF parsed.kind = "raise"
    THEN [user |-> current_user, response |-> CalculationFailed(<<>>)]
    ELSE IF InvalidIncome(parsed.value)
    THEN [user |-> current_user,
          response |-> [status |-> 400, error |-> "Invalid income amount",
                        called |-> <<>>]]
    ELSE PlanForIncome(data, parsed.value)

\* the per-minute allowance the route is decorated with
PlanPerMinute == 30

\* rate_limit(per_minute)(f): the wrapper calls f and returns what f returns;
\* neither per_minute nor the requests seen so far enter into it
rate_limit(per_minute, seen, f) == f

\* the request is answered with the handler's outcome
Answered(outcome) ==
    /\ plan' = [plan EXCEPT !.pc = "responded"]
                 @@ [response |-> outcome.response]
    /\ user' = outcome.user

\* the decorated handler calculate_plan on the body received
CalculatePlan ==
    /\ plan.pc = "received"
    /\ Answered(rate_limit(PlanPerMinute, handled,
                           HandlePlan(plan.data, user, ParseIncome(plan.data))))
    /\ handled' = handled + 1
    /\ UNCHANGED notPlan

\* the client has the response
PlanRespond ==
    /\ plan.pc = "responded"
    /\ plan' = NoRequest
    /\ UNCHANGED <<user, handled, notPlan>>

\* the client sends nothing for a minute: every request handled so far is
\* more than a minute old
MinutePasses ==
    /\ plan.pc = "idle"
    /\ handled > 0
    /\ handled' = 0
    /\ UNCHANGED <<user, plan, notPlan>>

NextPlan == PlanRequest \/ CalculatePlan \/ PlanRespond \/ MinutePasses

PlanSpec == Init /\ [][NextPlan]_vars

----------------------------------------------------------------------------
(* Properties *)

SingleReturned ==
    pc = "returned" /\ op = "analyze_single_goal" /\ result.kind = "return"

GoalsReturned ==
    pc = "returned" /\ op = "analyze_goals" /\ result.kind = "return"

\* the catalog entries whose key matches the goal's lower-cased name, in
\* either direction
MatchingTemplates(goal) ==
    {i \in 1..Len(goal_templates) :
        \/ Contains(Lower(Get(goal, "name", DefaultGoalName)), goal_templates[i].key)
        \/ Contains(goal_templates[i].key, Lower(Get(goal, "name", DefaultGoalName)))}

FirstOf(S) == CHOOSE i \in S : \A j \in S : i <= j

\* the thresholds (percent of income) the sip is at or below
BandsAtOrAbove(monthly_sip, monthly_income) ==
    {k \in {5, 10, 15, 20, 25} : monthly_sip <= k * monthly_income}

\* C1: for monthly_sip >= 0 and monthly_income > 0 the score is 100, 80, 60,
\* 40, 20, 0 as the sip is at most 5, 10, 15, 20, 25 percent of the income or
\* more: 20 points per threshold it stays at or below.  Hence it is one of
\* the six values and no larger sip gets a larger score.
C1_ScoreIsStepFunction ==
    (pc = "returned" /\ op = "calculate_feasibility_score"
        /\ args.monthly_income > 0)
    => /\ result.kind = "return"
       /\ result.value =
            20 * Cardinality(BandsAtOrAbove(args.monthly_sip, args.monthly_income))
       /\ result.value \in {0, 20, 40, 60, 80, 100}
       /\ \A larger \in SipInputs(args.monthly_income) :
            larger >= args.monthly_sip
            => calculate_feasibility_score(larger, args.monthly_income)
                    <= result.value

\* C1 witness: a sip of exactly 20% of the income scored 40
C1_Witness ==
    /\ pc = "returned" /\ op = "calculate_feasibility_score"
    /\ args.monthly_income > 0
    /\ args.monthly_sip = 20 * args.monthly_income
    /\ result = Returned(40)

\* C2 as stated: of two goals of one result, the one with the larger sip (the
\* income being the same) has the strictly smaller score.
C2_StrictlyDecreasing ==
    GoalsReturned
    => \A i, j \in 1..Len(result.value.goals) :
          result.value.goals[i].monthly_sip_required
              > result.value.goals[j].monthly_sip_required
          => result.value.goals[i].feasibility_score
              < result.value.goals[j].feasibility_score

\* C2 amended: of two goals of one result, the one with the larger sip never
\* has the larger score.
C2_NonIncreasing ==
    GoalsReturned
    => \A i, j \in 1..Len(result.value.goals) :
          result.value.goals[i].monthly_sip_required
              > result.value.goals[j].monthly_sip_required
          => result.value.goals[i].feasibility_score
              <= result.value.goals[j].feasibility_score

\* C2 witness: two goals of one result in the 20% and the 25% band
C2_Witness ==
    /\ GoalsReturned
    /\ \E i, j \in 1..Len(result.value.goals) :
          /\ result.value.goals[i].monthly_sip_required
               > result.value.goals[j].monthly_sip_required
          /\ result.value.goals[i].feasibility_score = 20
          /\ result.value.goals[j].feasibility_score = 40

\* C3: a goal without an amount fails with MissingGoalAmount when no template
\* matches its name, and gets the template's typical amount when one does.
C3_MissingAmountFails ==
    (pc = "returned" /\ op = "analyze_single_goal"
        /\ args.monthly_income > 0 /\ "amount" \notin DOMAIN args.goal)
    => IF MatchingTemplates(args.goal) = {}
       THEN result = Raised("MissingGoalAmount")
       ELSE /\ result.kind = "return"
            /\ result.value.target_amount =
                 goal_templates[FirstOf(MatchingTemplates(args.goal))].typical_amount
                    * args.monthly_income

\* C4: a list with a malformed goal (no amount, no template) yields an error
\* and never a result.
C4_MalformedGoalStopsAnalysis ==
    (pc = "returned" /\ op = "analyze_goals" /\ args.monthly_income > 0
        /\ \E i \in 1..Len(args.user_goals) :
              /\ "amount" \notin DOMAIN args.user_goals[i]
              /\ MatchingTemplates(args.user_goals[i]) = {})
    => result.kind = "raise"

\* C5: "Emergency Fund" without an amount gets the emergency-fund template:
\* target 6 x income, remaining 6 x income without savings, priority
\* critical, strategy liquid.
C5_EmergencyFundTemplate ==
    (pc = "returned" /\ op = "analyze_single_goal"
        /\ args.monthly_income > 0
        /\ "name" \in DOMAIN args.goal
        /\ args.goal["name"] = <<"E", "m", "e", "r", "g", "e", "n", "c", "y", " ", "F", "u", "n", "d">>
        /\ "amount" \notin DOMAIN args.goal)
    => /\ result.kind = "return"
       /\ result.value.target_amount = 6 * args.monthly_income
       /\ (result.value.current_corpus = 0
            => result.value.remaining_amount = 6 * args.monthly_income)
       /\ result.value.priority = "critical"
       /\ result.value.investment_strategy = "liquid"

\* C6: the template used is the first catalog entry, in insertion order, whose
\* key contains the lower-cased name or is contained in it; with no such
\* entry no template is used: priority medium, strategy from the horizon,
\* amount as given.
C6_FirstMatchingTemplate ==
    SingleReturned
    => IF MatchingTemplates(args.goal) = {}
       THEN /\ result.value.priority = "medium"
            /\ result.value.investment_strategy
                 = determine_investment_strategy(
                       result.value.time_horizon_years, 0)
            /\ result.value.target_amount = Get(args.goal, "amount", 0)
       ELSE LET first == goal_templates[FirstOf(MatchingTemplates(args.goal))]
            IN  /\ result.value.priority = first.priority
                /\ result.value.investment_strategy = first.investment_type
                /\ "amount" \notin DOMAIN args.goal
                     => result.value.target_amount
                          = first.typical_amount * args.monthly_income

\* C6 witness: a name that matches two catalog keys got the earlier one
\* ("child_education": education before child_education)
C6_Witness ==
    /\ SingleReturned
    /\ Cardinality(MatchingTemplates(args.goal)) = 2
    /\ 8 \in MatchingTemplates(args.goal)
    /\ "amount" \notin DOMAIN args.goal
    /\ result.value.priority = "high"
    /\ result.value.target_amount = 36 * args.monthly_income

\* C7: a goal with time_years <= 0 has monthly_sip_required and
\* future_value_projection both equal to remaining_amount.
C7_DueNowGoal ==
    (SingleReturned /\ result.value.time_horizon_years <= 0)
    => /\ result.value.monthly_sip_required = 100 * result.value.remaining_amount
       /\ result.value.future_value_projection
            = 100 * result.value.remaining_amount

\* C7 witness: a goal due now with savings and something left to save
C7_Witness ==
    /\ SingleReturned
    /\ result.value.time_horizon_years = 0
    /\ result.value.current_corpus > 0
    /\ result.value.remaining_amount > 0
    /\ result.value.remaining_amount # result.value.current_corpus
    /\ result.value.monthly_sip_required = 100 * result.value.remaining_amount

\* C8: remaining_amount = max(0, target_amount - current_corpus) and
\* monthly_sip_required >= 0; savings at or above the target leave nothing
\* to save and a sip of 0, whatever the horizon.
C8_RemainingAndSipNonNegative ==
    SingleReturned
    => /\ result.value.remaining_amount
            = (IF result.value.target_amount > result.value.current_corpus
               THEN result.value.target_amount - result.value.current_corpus
               ELSE 0)
       /\ result.value.monthly_sip_required >= 0
       /\ result.value.current_corpus >= result.value.target_amount
            => /\ result.value.remaining_amount = 0
               /\ result.value.monthly_sip_required = 0

\* C8 witness: savings above a positive target, over a positive horizon
C8_Witness ==
    /\ SingleReturned
    /\ result.value.target_amount > 0
    /\ result.value.current_corpus > result.value.target_amount
    /\ result.value.time_horizon_years > 0
    /\ result.value.monthly_sip_required = 0

\* C9 as stated: the corpus is the goal's own current_savings when given and
\* non-zero, and the default otherwise.
C9_OwnSavingsUnlessZero ==
    SingleReturned
    => result.value.current_corpus
         = (IF "current_savings" \in DOMAIN args.goal
                 /\ args.goal["current_savings"] # 0
            THEN args.goal["current_savings"]
            ELSE args.current_savings)

\* C9 amended: the corpus is the goal's own current_savings whenever the
\* request carries the key, 0 included, and the default only when it does not.
C9_OwnSavingsWhenPresent ==
    SingleReturned
    => result.value.current_corpus
         = (IF "current_savings" \in DOMAIN args.goal
            THEN args.goal["current_savings"]
            ELSE args.current_savings)

\* C9 witness: own savings of 0 kept against a non-zero default
C9_Witness ==
    /\ SingleReturned
    /\ "current_savings" \in DOMAIN args.goal
    /\ args.goal["current_savings"] = 0
    /\ args.current_savings > 0
    /\ result.value.current_corpus = 0

\* the requests analyze_goals works through: the given list, or the default
\* goals in place of an empty one
EffectiveRequests ==
    IF args.user_goals = <<>>
    THEN DefaultGoals(args.monthly_income)
    ELSE args.user_goals

GoalBrief(goal) ==
    <<goal.name, goal.target_amount, goal.time_horizon_years>>

GoalBriefs(goals) == [i \in 1..Len(goals) |-> GoalBrief(goals[i])]

\* analyze_goals was called with no goals and has returned
DefaultsReturned == GoalsReturned /\ args.user_goals = <<>>

\* C11: the goals analyzed for an empty request list are, in this order,
\* Emergency Fund (6 x income, 2 years), House Purchase (60 x income, 10
\* years) only from income 50000, Car Purchase (8 x income, 5 years) only
\* from income 30000, Retirement Corpus (300 x income, 25 years); the first
\* and the last are always there, and at income 20000 they are the only two.
C11_DefaultGoalList ==
    DefaultsReturned =>
        LET income == args.monthly_income
            briefs == GoalBriefs(result.value.goals)
        IN  /\ briefs =
                 <<<<<<"E", "m", "e", "r", "g", "e", "n", "c", "y", " ", "F", "u", "n", "d">>,
                     6 * income, 2 * QuartersPerYear>>>>
                 \o (IF income >= 50000
                     THEN <<<<<<"H", "o", "u", "s", "e", " ", "P", "u", "r", "c", "h", "a", "s", "e">>,
                              60 * income, 10 * QuartersPerYear>>>>
                     ELSE <<>>)
                 \o (IF income >= 30000
                     THEN <<<<<<"C", "a", "r", " ", "P", "u", "r", "c", "h", "a", "s", "e">>,
                              8 * income, 5 * QuartersPerYear>>>>
                     ELSE <<>>)
                 \o <<<<<<"R", "e", "t", "i", "r", "e", "m", "e", "n", "t", " ", "C", "o", "r", "p", "u", "s">>,
                       300 * income, 25 * QuartersPerYear>>>>
            /\ (income = 20000 => Len(briefs) = 2)

\* the default list with the car but not the house
C11_Witness ==
    /\ DefaultsReturned
    /\ args.monthly_income = 30000
    /\ Len(result.value.goals) = 3
    /\ result.value.goals[2].target_amount = 8 * 30000

\* analyze_goals has been entered with no goals and nothing has run yet
EmptyCallEntered ==
    pc = "called" /\ op = "analyze_goals" /\ args.user_goals = <<>>
        /\ stack = <<>>

\* the call with no goals is back at its caller
EmptyCallReturned ==
    /\ pc = "returned"
    /\ op = "analyze_goals"
    /\ args.user_goals = <<>>
    /\ stack = <<>>

\* it is back with the outcome of the loop and the aggregation run on the
\* default list
EmptyCallDone ==
    /\ EmptyCallReturned
    /\ result = AnalysisResult(
                    AnalyzeLoop(DefaultGoals(args.monthly_income), 1,
                                args.monthly_income, 0, LoopStart),
                    args.monthly_income)

\* while generate_default_goals waits, it waits alone, for a call of
\* analyze_goals on a list with goals
DefaultsEnteredOnce ==
    stack # <<>> =>
        /\ Len(stack) = 1
        /\ op = "analyze_goals"
        /\ args.user_goals # <<>>
        /\ stack[1].user_goals = <<>>

\* C12: analyze_goals called with no goals always ends, with exactly the
\* outcome of the normal pipeline on the default goal list; the recursion
\* through generate_default_goals enters analyze_goals once more, with a
\* list that has goals, and never takes the empty-list branch again.
C12_EmptyListRunsPipelineOnDefaults ==
    /\ [](DefaultsEnteredOnce)
    /\ (EmptyCallEntered ~> EmptyCallReturned)
    /\ [](EmptyCallReturned => EmptyCallDone)

\* the call with no goals has returned the four default goals
C12_Witness ==
    /\ EmptyCallDone
    /\ result.kind = "return"
    /\ Len(result.value.goals) = 4
    /\ args.current_savings = 30000

\* the status the bands give a total (paise) under an income (rupees): a
\* total of k percent of the income is k * income paise
StatusOfTotal(total, income) ==
    CHOOSE status \in {"Highly Feasible", "Feasible with Discipline",
                       "Challenging but Possible", "Needs Restructuring"} :
        /\ status = "Highly Feasible" <=> total <= 15 * income
        /\ status = "Feasible with Discipline"
              <=> (15 * income < total /\ total <= 25 * income)
        /\ status = "Challenging but Possible"
              <=> (25 * income < total /\ total <= 35 * income)
        /\ status = "Needs Restructuring" <=> 35 * income < total

\* monthly_sip_required of the goals, added up from the last to the first
RECURSIVE SipTotal(_, _)
SipTotal(goals, n) ==
    IF n = 0 THEN 0 ELSE goals[n].monthly_sip_required + SipTotal(goals, n - 1)

AssessReturned ==
    pc = "returned" /\ op = "assess_feasibility" /\ result.kind = "return"

\* C13: the status is Highly Feasible up to 15 percent of the income,
\* Feasible with Discipline up to 25, Challenging but Possible up to 35 (so
\* at 30), Needs Restructuring above (so at 40); in the result of
\* analyze_goals it is the status of the total, which is the sum of
\* monthly_sip_required over all analyzed goals.
C13_FeasibilityStatusBands ==
    /\ AssessReturned =>
          result.value.status
              = StatusOfTotal(args.total_sip_needed, args.monthly_income)
    /\ (AssessReturned /\ args.total_sip_needed = 30 * args.monthly_income)
          => result.value.status = "Challenging but Possible"
    /\ (AssessReturned /\ args.total_sip_needed = 40 * args.monthly_income)
          => result.value.status = "Needs Restructuring"
    /\ GoalsReturned =>
          /\ result.value.total_monthly_sip_needed
                = SipTotal(result.value.goals, Len(result.value.goals))
          /\ result.value.feasibility_analysis.status
                = StatusOfTotal(result.value.total_monthly_sip_needed,
                                args.monthly_income)

\* two goals whose sips are each within 25 percent of the income and
\* together between 25 and 35
C13_Witness ==
    /\ GoalsReturned
    /\ Len(result.value.goals) = 2
    /\ \A i \in 1..2 :
          /\ result.value.goals[i].monthly_sip_required > 0
          /\ result.value.goals[i].monthly_sip_required
                <= 25 * args.monthly_income
    /\ result.value.feasibility_analysis.status = "Challenging but Possible"

\* assess_feasibility called with exactly 35 percent of the income
C13_WitnessBoundary ==
    /\ AssessReturned
    /\ args.monthly_income > 0
    /\ args.total_sip_needed = 35 * args.monthly_income
    /\ result.value.status = "Challenging but Possible"

\* the place of a kind of suggestion in the order of the list
KindRank(type) ==
    CASE type = "prioritization" -> 1
      [] type = "timeline_extension" -> 2
      [] type = "income_enhancement" -> 3

\* the suggestions of one kind, in their order in the list
OfKind(suggestions, type) == SelectSeq(suggestions, LAMBDA s : s.type = type)

\* the analyzed goals with feasibility_score < 60, in goal order
DifficultGoals(goals) == SelectSeq(goals, LAMBDA g : g.feasibility_score < 60)

\* the summed SIP (paise) of the critical and high priority goals
HighPrioritySip(goals) ==
    LET high == SelectSeq(goals, LAMBDA g : g.priority \in {"critical", "high"})
    IN  SipTotal(high, Len(high))

\* suggestions is the list the three rules give for goals and the income
SuggestionsAsSpecified(suggestions, goals, income) ==
    LET total == SipTotal(goals, Len(goals))
        prioritization == OfKind(suggestions, "prioritization")
        extensions == OfKind(suggestions, "timeline_extension")
        enhancement == OfKind(suggestions, "income_enhancement")
    IN  /\ \A j \in 1..Len(suggestions) : \A k \in j..Len(suggestions) :
              KindRank(suggestions[j].type) <= KindRank(suggestions[k].type)
        /\ Len(prioritization)
              = IF HighPrioritySip(goals) > 25 * income THEN 1 ELSE 0
        /\ Len(extensions) = Len(DifficultGoals(goals))
        /\ \A j \in 1..Len(extensions) :
              extensions[j].goal = DifficultGoals(goals)[j].name
        /\ Len(enhancement) = IF total > 25 * income THEN 1 ELSE 0
        /\ \A j \in 1..Len(enhancement) :
              enhancement[j].target_increase = total - 25 * income

\* C14: optimization_suggestions is, in this order, one prioritization
\* suggestion iff the SIP of the critical and high priority goals exceeds a
\* quarter of the income, one timeline_extension per goal with
\* feasibility_score < 60 in goal order, and one income_enhancement iff the
\* total SIP exceeds a quarter of the income, its target_increase being the
\* excess; each kind is present or absent whatever the other two are.
C14_SuggestionsInOrder ==
    GoalsReturned =>
        SuggestionsAsSpecified(result.value.optimization_suggestions,
                               result.value.goals, args.monthly_income)

\* all three kinds in one list, with a goal that gets no extension
C14_Witness ==
    /\ GoalsReturned
    /\ LET suggestions == result.value.optimization_suggestions
       IN  /\ Len(suggestions) = 3
           /\ suggestions[1].type = "prioritization"
           /\ suggestions[2].type = "timeline_extension"
           /\ suggestions[3].type = "income_enhancement"
           /\ suggestions[3].target_increase > 0
    /\ Len(result.value.goals) = 2
    /\ Len(DifficultGoals(result.value.goals)) = 1

\* an extension and an income_enhancement without a prioritization
C14_WitnessNoPrioritization ==
    /\ GoalsReturned
    /\ LET suggestions == result.value.optimization_suggestions
       IN  /\ Len(suggestions) >= 2
           /\ suggestions[1].type = "timeline_extension"
           /\ suggestions[Len(suggestions)].type = "income_enhancement"

\* an extension alone: a goal over 15 percent, the total within 25
C14_WitnessExtensionOnly ==
    /\ GoalsReturned
    /\ LET suggestions == result.value.optimization_suggestions
       IN  /\ Len(suggestions) = 1
           /\ suggestions[1].type = "timeline_extension"

\* the timeline_extension suggestions of a result, in order
ExtensionsOf(value) == OfKind(value.optimization_suggestions, "timeline_extension")

\* C15: every analyzed goal with feasibility_score < 60 yields a
\* timeline_extension whose suggested_timeline is the goal's horizon plus 2
\* years and whose new_sip is strictly less than the goal's
\* monthly_sip_required.
C15_ExtensionLowersSip ==
    GoalsReturned =>
        LET difficult == DifficultGoals(result.value.goals)
            extensions == ExtensionsOf(result.value)
        IN  /\ Len(extensions) = Len(difficult)
            /\ \A j \in 1..Len(difficult) :
                  /\ extensions[j].goal = difficult[j].name
                  /\ extensions[j].current_timeline
                        = difficult[j].time_horizon_years
                  /\ extensions[j].suggested_timeline
                        = difficult[j].time_horizon_years + 2 * QuartersPerYear
                  /\ extensions[j].new_sip < difficult[j].monthly_sip_required

\* the same for the goals whose horizon is not negative (the horizons a
\* GoalRequest may carry)
C15_ExtensionLowersSipFromNow ==
    GoalsReturned =>
        LET difficult == DifficultGoals(result.value.goals)
            extensions == ExtensionsOf(result.value)
        IN  \A j \in 1..Len(difficult) :
                difficult[j].time_horizon_years >= 0 =>
                    /\ extensions[j].suggested_timeline
                          = difficult[j].time_horizon_years + 2 * QuartersPerYear
                    /\ extensions[j].new_sip < difficult[j].monthly_sip_required

\* an extension of a goal with a positive horizon, its new SIP positive
C15_NowWitness ==
    /\ GoalsReturned
    /\ \E j \in 1..Len(ExtensionsOf(result.value)) :
          /\ ExtensionsOf(result.value)[j].current_timeline > 0
          /\ ExtensionsOf(result.value)[j].new_sip > 0
          /\ ExtensionsOf(result.value)[j].new_sip
                < DifficultGoals(result.value.goals)[j].monthly_sip_required

\* a goal analyzed with a horizon of -2 years
C15_NegativeHorizonAnalyzed ==
    /\ GoalsReturned
    /\ \E j \in 1..Len(ExtensionsOf(result.value)) :
          /\ ExtensionsOf(result.value)[j].current_timeline = -2 * QuartersPerYear
          /\ ExtensionsOf(result.value)[j].suggested_timeline = 0
          /\ ExtensionsOf(result.value)[j].new_sip
                = DifficultGoals(result.value.goals)[j].monthly_sip_required

\* the tag the horizon thresholds give (years = quarters / QuartersPerYear)
TagOfHorizon(quarters) ==
    CHOOSE tag \in {"liquid", "conservative", "moderate", "aggressive"} :
        /\ tag = "liquid" <=> quarters <= 2 * QuartersPerYear
        /\ tag = "conservative"
              <=> (2 * QuartersPerYear < quarters /\ quarters <= 5 * QuartersPerYear)
        /\ tag = "moderate"
              <=> (5 * QuartersPerYear < quarters /\ quarters <= 10 * QuartersPerYear)
        /\ tag = "aggressive" <=> 10 * QuartersPerYear < quarters

C16_WitnessThresholds ==
    /\ SingleReturned
    /\ MatchingTemplates(args.goal) = {}
    /\ \/ result.value.time_horizon_years = 8
             /\ result.value.investment_strategy = "liquid"
       \/ result.value.time_horizon_years = 9
             /\ result.value.investment_strategy = "conservative"
       \/ result.value.time_horizon_years = 21
             /\ result.value.investment_strategy = "moderate"
       \/ result.value.time_horizon_years = 41
             /\ result.value.investment_strategy = "aggressive"

\* the base value of a strategy tag
BaseOfTag(tag) ==
    CASE tag = "liquid" -> 5
      [] tag = "conservative" -> 7
      [] tag = "moderate" -> 9
      [] tag = "hybrid" -> 10
      [] tag = "aggressive" -> 12

\* C17: expected_return is the base value of the strategy (liquid 5,
\* conservative 7, moderate 9, hybrid 10, aggressive 12) plus 1 when the
\* horizon is over 10 years, minus 1 when it is under 2 years, unchanged
\* otherwise; it is a function of the tag and the horizon alone, not the
\* template's expected_return, and is strictly positive.
C17_ExpectedReturn ==
    SingleReturned =>
        LET tag == result.value.investment_strategy
            quarters == result.value.time_horizon_years
        IN  /\ tag \in {"liquid", "conservative", "moderate", "hybrid", "aggressive"}
            /\ result.value.expected_return
                  = BaseOfTag(tag)
                      + (IF quarters > 10 * QuartersPerYear THEN 1 ELSE 0)
                      - (IF quarters < 2 * QuartersPerYear THEN 1 ELSE 0)
            /\ result.value.expected_return > 0

\* a template whose own expected_return (education: 11) differs from the
\* value returned (moderate on 5 years: 9)
C17_Witness ==
    /\ SingleReturned
    /\ MatchingTemplates(args.goal) # {}
    /\ LET template == GoalTemplates[FirstOf(MatchingTemplates(args.goal))]
       IN  /\ template.expected_return = 11
           /\ result.value.investment_strategy = "moderate"
           /\ result.value.time_horizon_years = 5 * QuartersPerYear
           /\ result.value.expected_return = 9

\* the premium and the penalty applied
C17_WitnessPremium ==
    /\ SingleReturned
    /\ result.value.time_horizon_years = 10 * QuartersPerYear + 1
    /\ result.value.expected_return = BaseOfTag(result.value.investment_strategy) + 1

C17_WitnessPenalty ==
    /\ SingleReturned
    /\ result.value.time_horizon_years = 2 * QuartersPerYear - 4
    /\ result.value.expected_return = 4

MilestonesReturned ==
    pc = "returned" /\ op = "generate_milestones" /\ result.kind = "return"

\* milestones are n quarterly checkpoints of target (rupees): amounts in
\* paise, the last one the whole target
QuarterlyCheckpoints(milestones, target, n) ==
    /\ Len(milestones) = n
    /\ \A i \in 1..n :
          /\ milestones[i].milestone = <<"Quarter", i>>
          /\ milestones[i].target_amount = MulDivRound(target, 100 * i, n)
          /\ milestones[i].percentage = <<100 * i, n>>
          /\ milestones[i].target_date.days = 90 * i
    /\ milestones[n].target_amount = 100 * target

\* milestones are yearly checkpoints of target over a horizon in quarters
YearlyCheckpoints(milestones, target, quarters) ==
    /\ Len(milestones) <= 5
    /\ Len(milestones) <= quarters \div QuartersPerYear
    /\ Len(milestones) = 5 \/ Len(milestones) = quarters \div QuartersPerYear
    /\ \A i \in 1..Len(milestones) :
          /\ milestones[i].milestone = <<"Year", i>>
          /\ milestones[i].target_amount
                = MulDivRound(target, 100 * i * QuartersPerYear, quarters)
          /\ milestones[i].target_amount <= 100 * target
          /\ milestones[i].percentage = <<100 * i * QuartersPerYear, quarters>>
          /\ milestones[i].target_date.days = 365 * i

\* C18: generate_milestones returns quarterly checkpoints, at least 1 and at
\* most 4, when the horizon is at most 1 year, and yearly checkpoints, at
\* most 5 whatever the horizon, otherwise; never more than 5 entries;
\* milestone i carries target x i / quarters or target x i / years; no
\* percentage exceeds 100.
C18_MilestoneList ==
    MilestonesReturned =>
        LET milestones == result.value
        IN  /\ Len(milestones) <= 5
            /\ IF args.years <= QuartersPerYear
               THEN /\ Len(milestones) \in 1..4
                    /\ QuarterlyCheckpoints(milestones, args.target_amount,
                                            Len(milestones))
                    /\ args.years >= 1 => Len(milestones) = args.years
               ELSE YearlyCheckpoints(milestones, args.target_amount, args.years)
            /\ \A i \in 1..Len(milestones) :
                  /\ milestones[i].percentage[1] <= 100 * milestones[i].percentage[2]
                  /\ i > 1 => milestones[i].target_amount
                                 >= milestones[i - 1].target_amount

\* a 25 year horizon: 5 yearly checkpoints, the last at 20 percent
C18_Witness ==
    /\ MilestonesReturned
    /\ args.years = 25 * QuartersPerYear
    /\ args.target_amount = 15000000
    /\ Len(result.value) = 5
    /\ result.value[5].milestone = <<"Year", 5>>
    /\ result.value[5].target_amount = 100 * 3000000
    /\ result.value[5].percentage = <<2000, 100>>

\* a horizon of 3 quarters: 3 quarterly checkpoints
C18_WitnessQuarterly ==
    /\ MilestonesReturned
    /\ args.years = 3
    /\ args.target_amount = 1000
    /\ Len(result.value) = 3
    /\ result.value[2].target_amount = 66667

\* analyze_goals has returned to a caller who kept the outcome of an earlier
\* call with the same arguments
RepeatedCallReturned ==
    /\ pc = "returned"
    /\ op = "analyze_goals"
    /\ stack = <<>>
    /\ earlier # NoCall
    /\ earlier.args = args

\* C19: analyze_goals called again with identical inputs gives an outcome
\* identical in every field other than the milestone dates, whatever calls
\* with other inputs were made in between: nothing an earlier call leaves
\* behind reaches the result.
C19_SameInputsSameOutput ==
    RepeatedCallReturned => WithoutDates(result) = earlier.outcome

\* a repeated call after a call with other inputs, returning goals, the
\* clock passing into the next period during the repeated call
C19_Witness ==
    /\ RepeatedCallReturned
    /\ earlier.between
    /\ result.kind = "return"
    /\ \E i \in 1..Len(result.value.goals) :
          \E j \in 1..Len(result.value.goals[i].milestone_tracking) :
              result.value.goals[i].milestone_tracking[j].target_date.now = 1

\* the clock readings behind the milestone dates of a result, over all goals
RECURSIVE BaseTimes(_, _)
BaseTimes(goals, n) ==
    IF n = 0 THEN {}
    ELSE {goals[n].milestone_tracking[j].target_date.now :
             j \in 1..Len(goals[n].milestone_tracking)}
         \cup BaseTimes(goals, n - 1)

\* C20: within one analyze_goals call all milestone dates of all goals are
\* derived from a single "now" read once for the call, so the clock
\* advancing during the call cannot make two milestones of the call use
\* different base times.
C20_SingleNowPerCall ==
    GoalsReturned =>
        Cardinality(BaseTimes(result.value.goals, Len(result.value.goals))) <= 1

\* the clock passed into the next period between two reads of one call:
\* its milestones rest on two readings
C20_TwoBaseTimes ==
    /\ GoalsReturned
    /\ clock > 0
    /\ BaseTimes(result.value.goals, Len(result.value.goals)) = {0, 1}

\* the same within the milestones of a single goal
C20_TwoBaseTimesInOneGoal ==
    /\ GoalsReturned
    /\ Len(result.value.goals) = 1
    /\ Len(result.value.goals[1].milestone_tracking) = 2
    /\ result.value.goals[1].milestone_tracking[1].target_date.now = 0
    /\ result.value.goals[1].milestone_tracking[2].target_date.now = 1

\* C21: no sequence or interleaving of analyze_goals and
\* generate_default_goals calls on the shared GoalAgent changes the goal
\* template catalog or the investment strategy table, which are as
\* construction left them, so that concurrent requests do not affect each
\* other's results: each gets the outcome it would get alone.
C21_TablesReadOnly ==
    /\ goal_templates = GoalTemplates
    /\ investment_recommendations = InvestmentRecommendations
    /\ \A t \in Threads :
          threads[t].pc = "done"
              => threads[t].result = OutcomeAlone(threads[t].request)

\* one request is finished while another, with a different goal list and
\* income, is in the middle of its loop
C21_Witness ==
    \E t, u \in Threads :
        /\ t # u
        /\ threads[t].pc = "done"
        /\ threads[t].result.kind = "return"
        /\ Len(threads[t].result.value.goals) = 2
        /\ threads[u].pc = "entered"
        /\ Len(threads[u].acc.analyzed_goals) = 1
        /\ Len(threads[u].user_goals) > 1
        /\ threads[u].request # threads[t].request
        /\ threads[u].monthly_income # threads[t].monthly_income

\* a request served through generate_default_goals beside another request
C21_WitnessDefaults ==
    \E t, u \in Threads :
        /\ t # u
        /\ threads[t].pc = "done"
        /\ threads[t].request.user_goals = <<>>
        /\ threads[t].result.kind = "return"
        /\ threads[u].pc = "entered"
        /\ threads[u].acc.analyzed_goals # <<>>

\* calculate_plan has answered a request whose income parses to a number
\* that is not positive
NonPositiveIncomeAnswered ==
    /\ plan.pc = "responded"
    /\ ParseIncome(plan.data).kind = "return"
    /\ ParseIncome(plan.data).value <= 0

\* the step of calculate_plan on such a request: an error response, no
\* agent called, the stored user as before
RejectedBeforeEngine ==
    (plan.pc = "received" /\ NonPositiveIncomeAnswered')
        => /\ plan'.response.status = 400
           /\ plan'.response.called = <<>>
           /\ user' = user

\* no agent is ever called with an income that is not positive
AgentsGetPositiveIncome ==
    plan.pc = "responded" =>
        \A k \in 1..Len(plan.response.called) :
            plan.response.called[k].income > 0

\* C22: a planning request whose income is <= 0 is rejected before the
\* engine is entered: calculate_plan returns an error response without
\* calling the budget, investment, goal or tax agent and without changing
\* the stored user's income or risk appetite, so no percentage-of-income
\* division runs with income <= 0.
C22_NonPositiveIncomeRejected ==
    [][RejectedBeforeEngine]_vars /\ []AgentsGetPositiveIncome

\* income 0 sent with a risk appetite after an accepted request: rejected,
\* the user's stored income and risk appetite still those of the accepted
\* request
C22_Witness ==
    /\ NonPositiveIncomeAnswered
    /\ "income" \in DOMAIN plan.data
    /\ plan.data["income"].value = 0
    /\ "risk" \in DOMAIN plan.data
    /\ plan.response.status = 400
    /\ user.monthly_income = 50000
    /\ user.risk_appetite # plan.data["risk"]

\* a negative income, and an absent one (parsed as 0)
C22_WitnessAbsent ==
    /\ NonPositiveIncomeAnswered
    /\ "income" \notin DOMAIN plan.data
    /\ plan.response.status = 400

\* what "up to rounding" allows, in paise, for a target in rupees: the SIP is
\* rounded to the paisa, which moves the future value by at most half a paisa
\* times the annuity factor (below 2000 for 25 years at 12%), and the
\* arithmetic here is exact to well within a thousandth of the target
RoundTripTolerance(target_amount) == 2000 + target_amount \div 10

\* the targets whose SIP at the call's return and horizon is the monthly
\* amount calculate_future_value was called with
SizedFor(call) ==
    {target_amount \in {t \in SipTargets : t >= 0} :
        calculate_sip_amount(target_amount, call.annual_return, call.years)
            = call.monthly_sip}

FutureValueReturned ==
    pc = "returned" /\ op = "calculate_future_value" /\ result.kind = "return"

\* C23: for years > 0, annual_return > 0 and target >= 0, the future value
\* of the SIP sized for the target is the target again, up to rounding:
\* calculate_future_value(calculate_sip_amount(target, r, y), r, y) = target.
C23_RoundTrip ==
    (FutureValueReturned /\ args.years > 0 /\ args.annual_return > 0)
    => \A target_amount \in SizedFor(args) :
          /\ result.value - 100 * target_amount
                <= RoundTripTolerance(target_amount)
          /\ 100 * target_amount - result.value
                <= RoundTripTolerance(target_amount)

\* C23 as the code has it: the future value of the SIP sized for the target
\* is the target grown by one more month, target * (1 + annual_return/1200),
\* up to rounding
C23_RoundTripOneMonthOver ==
    (FutureValueReturned /\ args.years > 0 /\ args.annual_return > 0)
    => \A target_amount \in SizedFor(args) :
          LET grown == 100 * target_amount
                         + MulDivRound(target_amount, args.annual_return, 12)
          IN  /\ result.value - grown <= RoundTripTolerance(target_amount)
              /\ grown - result.value <= RoundTripTolerance(target_amount)

\* a round trip for a target of 1000000 at 12% over 10 years
C23_Witness ==
    /\ FutureValueReturned
    /\ args.years = 40
    /\ args.annual_return = 12
    /\ 1000000 \in SizedFor(args)

SipAmountAnswered == pc = "returned" /\ op = "calculate_sip_amount"

\* C24: calculate_sip_amount called with a negative target amount fails with
\* InvalidGoalParameters; it does not return a SIP amount.
C24_NegativeTargetFails ==
    (SipAmountAnswered /\ args.target_amount < 0)
    => result = Raised("InvalidGoalParameters")

\* C24 as the code has it: a negative target returns the negated SIP of its
\* magnitude, a negative amount
C24_NegativeTargetReturnsNegativeSip ==
    (SipAmountAnswered /\ args.target_amount < 0)
    => /\ result.kind = "return"
       /\ result.value < 0
       /\ result.value = -calculate_sip_amount(-args.target_amount,
                                               args.annual_return, args.years)

\* a negative target of 1000 at 9% over one year has been answered
C24_NegativeTargetAnswered ==
    /\ SipAmountAnswered
    /\ args = [target_amount |-> -1000, annual_return |-> 9, years |-> 4]

\* C25: an endpoint decorated with rate_limit(per_minute = N) serves at most
\* N requests of one client within a minute; a further request in that
\* minute is rejected and the handler is not run.  For /api/calculate-plan,
\* N = 30: the handler has run at most 30 times within the last minute.
C25_AtMostPerMinute == handled <= PlanPerMinute

\* C25 as the code has it: every request received is handled, whatever the
\* number handled within the minute, and none is answered with 429
C25_EveryRequestHandled ==
    [][plan.pc = "received"
         => /\ handled' = handled + 1
            /\ plan'.pc = "responded"
            /\ plan'.response.status \in {200, 400, 500}]_vars

\* the 31st request within a minute has been answered with a plan
C25_OverTheAllowance ==
    /\ handled = PlanPerMinute + 1
    /\ plan.pc = "responded"
    /\ plan.response.status = 200

\* the goals of a result with feasibility_score 0
InfeasibleGoals(goals) == SelectSeq(goals, LAMBDA g : g.feasibility_score = 0)

\* C26: a prioritization suggestion never comes without an
\* income_enhancement suggestion; and when a goal has feasibility_score 0
\* the income_enhancement suggestion is present and the status is neither
\* Highly Feasible nor Feasible with Discipline.  (Every
\* monthly_sip_required is non-negative, so the SIP of some of the goals is
\* at most the total.)
C26_EnhancementFollows ==
    GoalsReturned =>
        LET suggestions == result.value.optimization_suggestions
            goals == result.value.goals
        IN  /\ \A i \in 1..Len(goals) : goals[i].monthly_sip_required >= 0
            /\ OfKind(suggestions, "prioritization") # <<>>
                  => OfKind(suggestions, "income_enhancement") # <<>>
            /\ InfeasibleGoals(goals) # <<>>
                  => /\ OfKind(suggestions, "income_enhancement") # <<>>
                     /\ result.value.feasibility_analysis.status
                           \in {"Challenging but Possible",
                                "Needs Restructuring"}

\* a prioritization suggestion where no goal alone has score 0: two high
\* priority goals together over a quarter of the income
C26_Witness ==
    /\ GoalsReturned
    /\ OfKind(result.value.optimization_suggestions, "prioritization") # <<>>
    /\ OfKind(result.value.optimization_suggestions, "income_enhancement") # <<>>
    /\ InfeasibleGoals(result.value.goals) = <<>>

\* a goal with score 0 and no prioritization suggestion
C26_WitnessScoreZero ==
    /\ GoalsReturned
    /\ InfeasibleGoals(result.value.goals) # <<>>
    /\ OfKind(result.value.optimization_suggestions, "prioritization") = <<>>
    /\ OfKind(result.value.optimization_suggestions, "income_enhancement") # <<>>

\* the request of the i-th goal with the horizon the suggestion proposes,
\* analyzed as analyze_single_goal analyzes it
Reanalyzed(i) ==
    analyze_single_goal(
        [time_years |-> result.value.goals[i].time_horizon_years
                            + 2 * QuartersPerYear] @@ args.user_goals[i],
        args.monthly_income, args.current_savings, 0)

\* the timeline_extension suggestion of the i-th goal, a goal with
\* feasibility_score < 60
ExtensionOfGoal(i) ==
    ExtensionsOf(result.value)[
        Len(DifficultGoals(SubSeq(result.value.goals, 1, i)))]

\* C27: the expected return behind new_sip in a timeline_extension is the
\* one analyze_single_goal assigns to the goal at the extended horizon
\* (time_years + 2), so new_sip is the monthly_sip_required of the goal
\* re-analyzed with the suggested timeline.
C27_NewSipAsReanalyzed ==
    GoalsReturned =>
        \A i \in 1..Len(args.user_goals) :
            result.value.goals[i].feasibility_score < 60 =>
                /\ Reanalyzed(i).kind = "return"
                /\ result.value.goals[i].expected_return
                      = Reanalyzed(i).value.expected_return
                /\ ExtensionOfGoal(i).new_sip
                      = Reanalyzed(i).value.monthly_sip_required

\* C27 as the code has it: new_sip is computed at the extended horizon with
\* the expected return the goal was given at its own horizon
C27_NewSipAtStoredReturn ==
    GoalsReturned =>
        \A i \in 1..Len(args.user_goals) :
            result.value.goals[i].feasibility_score < 60 =>
                ExtensionOfGoal(i).new_sip
                    = calculate_sip_amount(
                          result.value.goals[i].remaining_amount,
                          result.value.goals[i].expected_return,
                          result.value.goals[i].time_horizon_years
                              + 2 * QuartersPerYear)

\* a goal without template at 2 years (liquid, 5%) whose extension to 4 years
\* re-analyzes as conservative, 7%, with a lower SIP than new_sip
C27_StaleReturn ==
    /\ GoalsReturned
    /\ \E i \in 1..Len(args.user_goals) :
          /\ result.value.goals[i].feasibility_score < 60
          /\ result.value.goals[i].time_horizon_years = 2 * QuartersPerYear
          /\ result.value.goals[i].expected_return = 5
          /\ Reanalyzed(i).kind = "return"
          /\ Reanalyzed(i).value.expected_return = 7
          /\ Reanalyzed(i).value.monthly_sip_required
                < ExtensionOfGoal(i).new_sip

AllocationReturned ==
    pc = "returned" /\ op = "adjust_allocation_by_income"
        /\ result.kind = "return"

\* C29: for every risk template, income and time horizon the equity, debt,
\* alternative and liquid percentages returned by
\* adjust_allocation_by_income add up to exactly 100.
C29_AllocationSumsToHundred ==
    AllocationReturned => AllocationTotal(result.value) = 100

\* C29 as the code has it: each percentage is rounded on its own, and the
\* four add up to 99, 100 or 101
C29_AllocationSumsNearHundred ==
    AllocationReturned => AllocationTotal(result.value) \in 99..101

\* conservative, income 20000, 1 year: 10 + 57 + 10 + 24 = 101
C29_SumOver ==
    /\ AllocationReturned
    /\ args.base_allocation = PortfolioTemplates["conservative"]
    /\ args.income = 20000
    /\ args.time_horizon = 1
    /\ result.value = [equity |-> 10, debt |-> 57, alternative |-> 10,
                       liquid |-> 24]

\* moderate, income 200000, 20 years: 65 + 17 + 13 + 4 = 99
C29_SumUnder ==
    /\ AllocationReturned
    /\ args.base_allocation = PortfolioTemplates["moderate"]
    /\ args.income = 200000
    /\ args.time_horizon = 20
    /\ result.value = [equity |-> 65, debt |-> 17, alternative |-> 13,
                       liquid |-> 4]

\* the weights of the instruments of a returned portfolio's category, as
\* its holder finds them
WeightsIn(portfolio, k) ==
    [i \in 1..3 |->
        investment_options[portfolio.allocation[k].category][
            portfolio.allocation[k].instruments[i]].weight]

\* sum over the selected instruments of the category of own weight * field
RECURSIVE OwnWeightedSum(_, _, _, _, _)
OwnWeightedSum(instruments, selected, weights, field, k) ==
    IF k = 0 THEN 0
    ELSE weights[k] * instruments[selected[k]][field]
            + OwnWeightedSum(instruments, selected, weights, field, k - 1)

\* expected return (field "return", unit 1000) or risk score (field "risk",
\* unit 100) of the portfolio for a risk appetite and income, from the
\* weights defined for that risk appetite
RECURSIVE OwnTotal(_, _, _, _)
OwnTotal(risk_appetite, monthly_income, field, k) ==
    IF k = 0 THEN 0
    ELSE adjust_allocation_by_income(BaseAllocation(risk_appetite),
             monthly_income, DefaultTimeHorizon)[Categories[k]]
           * OwnWeightedSum(InvestmentOptions[Categories[k]],
                 Selected(InvestmentOptions[Categories[k]], risk_appetite),
                 Weights(risk_appetite), field, 3)
           + OwnTotal(risk_appetite, monthly_income, field, k - 1)

\* the returned portfolio is the one defined for its risk appetite
AsForOwnRisk(portfolio) ==
    /\ \A k \in 1..Len(Categories) :
          WeightsIn(portfolio, k) = Weights(portfolio.risk_profile)
    /\ portfolio.expected_annual_return
          = RoundHalfEven(OwnTotal(portfolio.risk_profile,
                                   portfolio.monthly_income, "return", 4), 1000)
    /\ portfolio.risk_score
          = RoundHalfEven(OwnTotal(portfolio.risk_profile,
                                   portfolio.monthly_income, "risk", 4), 100)

\* C28: suggest_portfolio calls on the shared InvestmentAgent, concurrent or
\* one after the other, do not interfere: no call modifies the shared
\* investment options table, and in every interleaving of two calls the
\* instrument weights of each result, and the expected return and risk
\* score computed from them, are those defined for its own risk appetite.
C28_CallsDoNotInterfere ==
    /\ investment_options = InvestmentOptions
    /\ \A t \in Threads :
          portfolios[t].pc = "done" => AsForOwnRisk(portfolios[t])

\* one call alone has left weights in the shared table
C28_TableWritten ==
    /\ \E t \in Threads : portfolios[t].pc = "done"
    /\ \E t \in Threads : portfolios[t].pc = "idle"
    /\ investment_options # InvestmentOptions
    /\ \A category \in DOMAIN investment_options :
          \E i \in DOMAIN investment_options[category] :
             "weight" \in DOMAIN investment_options[category][i]

\* a call that returned before the other began, whose portfolio now shows
\* the weights of the other's risk appetite
C28_ResultChangedAfterReturn ==
    \E t, u \in Threads :
        /\ portfolios[t].pc = "done"
        /\ portfolios[u].pc \notin {"idle", "done"}
        /\ portfolios[t].expected_annual_return
              = RoundHalfEven(OwnTotal(portfolios[t].risk_profile,
                                  portfolios[t].monthly_income, "return", 4), 1000)
        /\ \E k \in 1..Len(Categories) :
              /\ WeightsIn(portfolios[t], k) # Weights(portfolios[t].risk_profile)
              /\ WeightsIn(portfolios[t], k)[1] \in {40, 35, 25}

\* two interleaved calls, one of which returned an expected return that is
\* not the one of its risk appetite
C28_ForeignReturn ==
    \E t \in Threads :
        /\ \A u \in Threads : portfolios[u].pc = "done"
        /\ portfolios[t].expected_annual_return
              # RoundHalfEven(OwnTotal(portfolios[t].risk_profile,
                                  portfolios[t].monthly_income, "return", 4), 1000)

\* C30: for every positive income and every risk appetite (an unknown one
\* counts as moderate) the budget of calculate_budget has needs, wants and
\* savings percentages that add up to 100, wants and savings of at least
\* 10 percent each, and validate_budget_logic finds it valid, with no
\* issues.
C30_BudgetIsValid ==
    /\ (pc = "returned" /\ op = "calculate_budget" /\ args.monthly_income > 0)
          => /\ result.kind = "return"
             /\ result.value.needs.percentage + result.value.wants.percentage
                   + result.value.savings.percentage = 100
             /\ result.value.wants.percentage >= 10
             /\ result.value.savings.percentage >= 10
             /\ args.risk_appetite \notin DOMAIN RiskAdjustments
                   => result.value
                        = [calculate_budget(args.monthly_income, "moderate")
                              EXCEPT !.risk_profile = args.risk_appetite]
    /\ (pc = "returned" /\ op = "validate_budget_logic"
            /\ args.budget.monthly_income > 0)
          => result = Returned([is_valid |-> TRUE, issues |-> <<>>,
                                validation_passed |-> TRUE])

\* a conservative low-income budget, the wants reduced to 15 percent, found
\* valid
C30_Witness ==
    /\ pc = "returned"
    /\ op = "validate_budget_logic"
    /\ args.budget.risk_profile = "conservative"
    /\ args.budget.income_category = "low_income"
    /\ args.budget.wants.percentage = 15
    /\ args.budget.savings.percentage = 20
    /\ result.value.is_valid

\* the budget of an unknown risk appetite, found valid
C30_WitnessUnknownRisk ==
    /\ pc = "returned"
    /\ op = "validate_budget_logic"
    /\ args.budget.risk_profile = "unknown"
    /\ args.budget.income_category = "high_income"
    /\ result.value.is_valid

====
